---------------------------- MODULE Spec2Model ----------------------------
(***************************************************************************)
(* A model of the java_sdk_library machinery of build/soong                *)
(* (java/sdk_library.go): the api scope lattice, the resolver of the       *)
(* generated scopes, the creation of the component modules, the per-scope  *)
(* registry of artifact paths and the selection of a scope for a consumer. *)
(*                                                                         *)
(* One behaviour of Spec follows one library module through the phases the *)
(* build runs it through: the defaultable hook (CreateInternalModules),    *)
(* the component deps mutator, GenerateAndroidBuildActions and then the    *)
(* requests of consumers.                                                  *)
(***************************************************************************)
EXTENDS Naturals, Sequences, FiniteSets, TLC

VARIABLES
  pc,           \* the phase the library module is in
  props,        \* the library declaration: its property structs
  config,       \* android.Config: the global build configuration
  tree,         \* the source tree: the missing api files, the remediation script
  created,      \* the modules created by mctx.CreateModule, in order
  errors,       \* the errors reported through ModuleErrorf / PropertyErrorf
  missingDeps,  \* the paths handed to mctx.AddMissingDependencies
  deps,         \* the dependency edges added by ComponentDepsMutator
  scopePaths,   \* commonToSdkLibraryAndImport.scopePaths: scope -> record
  visits,       \* the scope dependency tags whose extractor has run, in order
  result        \* what the last request of a consumer returned

vars == <<pc, props, config, tree, created, errors, missingDeps, deps, scopePaths, visits, result>>

None == "<nil>"

----------------------------------------------------------------------------
(* Bounds of the model. *)

\* At most this many of the checked-in api files are missing from the tree.
MaxMissing == 1

\* At most this many dependency edges are visited when the extractors are
\* exercised on their own.
MaxVisits == 2

\* A build differs from the plainest one (a declaration that sets nothing, a
\* configuration with every flag off, a complete source tree) in at most this
\* many properties, flags and files.
MaxNonDefault == 3

----------------------------------------------------------------------------
(* The api scope lattice: sdk_library.go, var ( ... allApiScopes ... ). *)

apiScopePublic == "public"
apiScopeSystem == "system"
apiScopeTest == "test"
apiScopeModuleLib == "module-lib"
apiScopeSystemServer == "system-server"

\* A list of scopes in which test comes before the system scope it extends.
allApiScopes_TestFirst ==
  <<apiScopePublic, apiScopeTest, apiScopeSystem, apiScopeModuleLib, apiScopeSystemServer>>

allApiScopes ==
  <<apiScopePublic, apiScopeSystem, apiScopeTest, apiScopeModuleLib, apiScopeSystemServer>>

Scopes == {allApiScopes[i] : i \in DOMAIN allApiScopes}

\* apiScope.extends as written in the struct literals.
scopeExtends(scope) ==
  CASE scope = apiScopePublic -> None
    [] scope = apiScopeSystem -> apiScopePublic
    [] scope = apiScopeTest -> apiScopeSystem
    [] scope = apiScopeModuleLib -> apiScopeSystem
    [] scope = apiScopeSystemServer -> apiScopePublic

\* Struct literals none of which sets canAccess.
declaredCanAccess_NeverSet(scope) == None

\* apiScope.canAccess as written in the struct literals: only system-server sets it.
declaredCanAccess(scope) ==
  IF scope = apiScopeSystemServer THEN apiScopeModuleLib ELSE None

\* A lattice in which canAccess is always the scope a scope extends.
scopeCanAccess_Extends(scope) == scopeExtends(scope)

\* initApiScope: a scope that sets no canAccess can access the scope it extends.
scopeCanAccess(scope) ==
  IF declaredCanAccess(scope) = None THEN scopeExtends(scope) ELSE declaredCanAccess(scope)

moduleSuffix(scope) ==
  CASE scope = apiScopePublic -> ""
    [] scope = apiScopeSystem -> ".system"
    [] scope = apiScopeTest -> ".test"
    [] scope = apiScopeModuleLib -> ".module_lib"
    [] scope = apiScopeSystemServer -> ".system_server"

apiFilePrefix(scope) ==
  CASE scope = apiScopePublic -> ""
    [] scope = apiScopeSystem -> "system-"
    [] scope = apiScopeTest -> "test-"
    [] scope = apiScopeModuleLib -> "module-lib-"
    [] scope = apiScopeSystemServer -> "system-server-"

\* apiScope.unstable: only the test scope skips the compatibility checks.
scopeUnstable(scope) == scope = apiScopeTest

\* apiScope.defaultEnabledStatus: the zero value, false, unless the literal sets it.
defaultEnabledStatus(scope) == scope = apiScopePublic

\* SdkLibrary.generateTestAndSystemScopesByDefault
generateTestAndSystemScopesByDefault(module) == module.Generate_system_and_test_apis

\* apiScope.legacyEnabledStatus, the function each struct literal gives.
legacyEnabledStatus(scope, module) ==
  CASE scope = apiScopePublic -> TRUE
    [] scope = apiScopeSystem -> generateTestAndSystemScopesByDefault(module)
    [] scope = apiScopeTest -> generateTestAndSystemScopesByDefault(module)
    [] scope = apiScopeModuleLib -> FALSE
    [] scope = apiScopeSystemServer -> FALSE

----------------------------------------------------------------------------
(* Optional booleans, Go's pointer to bool: unset, or explicitly true or false. *)

Unset == "unset"
OptBool == {Unset, "true", "false"}

\* proptools.BoolDefault
BoolDefault(p, def) == IF p = Unset THEN def ELSE p = "true"

\* proptools.Bool
Bool(p) == BoolDefault(p, FALSE)

----------------------------------------------------------------------------
(* The scope enablement resolver. *)

\* The first loop of getGeneratedApiScopes.
anyScopesExplicitlyEnabled(module) ==
  \E scope \in Scopes : module.Enabled[scope] # Unset

\* A resolver that never leaves legacy mode.
scopeEnabled_AlwaysLegacy(module, scope) ==
  BoolDefault(module.Enabled[scope], legacyEnabledStatus(scope, module))

\* The body of the second loop of getGeneratedApiScopes: is this scope enabled.
scopeEnabled(module, scope) ==
  LET defaultStatus == IF anyScopesExplicitlyEnabled(module)
                         THEN defaultEnabledStatus(scope)
                         ELSE legacyEnabledStatus(scope, module)
  IN BoolDefault(module.Enabled[scope], defaultStatus)

\* A resolver whose last loop looks at the scope a scope can access instead of
\* the scope it extends.
getGeneratedApiScopes_CheckCanAccess(module) ==
  LET generatedScopes == SelectSeq(allApiScopes, LAMBDA scope : scopeEnabled(module, scope))
      enabledScopes == {generatedScopes[i] : i \in DOMAIN generatedScopes}
  IN [scopes |-> generatedScopes,
      errors |-> {[msg |-> "enabled api scope depends on disabled scope",
                   scope |-> scope, extends |-> scopeCanAccess(scope)] :
                  scope \in {s \in enabledScopes :
                               /\ scopeCanAccess(s) # None
                               /\ scopeCanAccess(s) \notin enabledScopes}}]

\* A resolver that reports a scope whose parent is disabled and leaves it out
\* of the scopes it returns.
getGeneratedApiScopes_DropOffending(module) ==
  LET enabledSeq == SelectSeq(allApiScopes, LAMBDA scope : scopeEnabled(module, scope))
      enabledScopes == {enabledSeq[i] : i \in DOMAIN enabledSeq}
      offending == {s \in enabledScopes :
                      scopeExtends(s) # None /\ scopeExtends(s) \notin enabledScopes}
  IN [scopes |-> SelectSeq(enabledSeq, LAMBDA scope : scope \notin offending),
      errors |-> {[msg |-> "enabled api scope depends on disabled scope",
                   scope |-> scope, extends |-> scopeExtends(scope)] : scope \in offending}]

\* SdkLibrary.getGeneratedApiScopes: the scopes it returns, in the order of
\* allApiScopes, and the errors it reports through ctx.ModuleErrorf.
getGeneratedApiScopes(module) ==
  LET generatedScopes == SelectSeq(allApiScopes, LAMBDA scope : scopeEnabled(module, scope))
      enabledScopes == {generatedScopes[i] : i \in DOMAIN generatedScopes}
  IN [scopes |-> generatedScopes,
      errors |-> {[msg |-> "enabled api scope depends on disabled scope",
                   scope |-> scope, extends |-> scopeExtends(scope)] :
                  scope \in {s \in enabledScopes :
                               /\ scopeExtends(s) # None
                               /\ scopeExtends(s) \notin enabledScopes}}]

----------------------------------------------------------------------------
(* The names of the component modules. *)

\* apiScope.stubsLibraryModuleNameSuffix
stubsLibraryModuleNameSuffix(scope) == ".stubs" \o moduleSuffix(scope)

\* apiScope.exportableStubsLibraryModuleNameSuffix
exportableStubsLibraryModuleNameSuffix(scope) == ".stubs.exportable" \o moduleSuffix(scope)

\* apiScope.stubsLibraryModuleName
stubsLibraryModuleName(scope, baseName) == baseName \o stubsLibraryModuleNameSuffix(scope)

\* apiScope.exportableStubsLibraryModuleName
exportableStubsLibraryModuleName(scope, baseName) ==
  baseName \o exportableStubsLibraryModuleNameSuffix(scope)

\* apiScope.apiLibraryModuleName
apiLibraryModuleName(scope, baseName) == stubsLibraryModuleName(scope, baseName) \o ".from-text"

\* apiScope.sourceStubLibraryModuleName
sourceStubsLibraryModuleName(scope, baseName) ==
  stubsLibraryModuleName(scope, baseName) \o ".from-source"

\* apiScope.exportableSourceStubsLibraryModuleName
exportableSourceStubsLibraryModuleName(scope, baseName) ==
  exportableStubsLibraryModuleName(scope, baseName) \o ".from-source"

\* A name of the stubs source with the suffix of the scope before ".stubs.source".
stubsSourceModuleName_ScopeFirst(scope, baseName) ==
  baseName \o moduleSuffix(scope) \o ".stubs.source"

\* apiScope.stubsSourceModuleName
stubsSourceModuleName(scope, baseName) == baseName \o ".stubs.source" \o moduleSuffix(scope)

\* commonToSdkLibraryAndImport.implLibraryModuleName
implLibraryModuleName(module) == module.Name \o ".impl"

sdkXmlFileSuffix == ".xml"

\* commonToSdkLibraryAndImport.xmlPermissionsModuleName
xmlPermissionsModuleName(module) == module.Name \o sdkXmlFileSuffix

----------------------------------------------------------------------------
(* Library declarations and build configurations. *)

\* The second name is one of the keys of apiLibraryAdditionalProperties.
LibraryNames == {"foo", "conscrypt.module.platform.api"}

\* The properties of a java_sdk_library that the modelled code reads.
\*   ModuleEnabled    module.Enabled()
\*   Srcs             len(module.properties.Srcs) > 0
\*   HasStandardLibs  decodeSdkDep(...).hasStandardLibs(), decided by sdk_version
\*   Enabled          the Enabled property of each scope's ApiScopeProperties
\*   Generate_system_and_test_apis is blueprint:"mutated": false until the hook sets it.
SdkLibraryDeclarations ==
  [Kind : {"java_sdk_library"},
   Name : LibraryNames,
   ModuleEnabled : BOOLEAN,
   Srcs : BOOLEAN,
   HasStandardLibs : BOOLEAN,
   Enabled : [Scopes -> OptBool],
   Api_only : BOOLEAN,
   Shared_library : OptBool,
   Unsafe_ignore_missing_latest_api : BOOLEAN,
   Naming_scheme : {"default", "other"},
   Generate_system_and_test_apis : {FALSE}]

\* The properties of a java_sdk_library_import that the modelled code reads:
\* the scopes whose sdkLibraryScopeProperties have Jars, Stub_srcs, Current_api.
SdkLibraryImportDeclarations ==
  [Kind : {"java_sdk_library_import"},
   Name : LibraryNames,
   ModuleEnabled : {TRUE},
   Jars : SUBSET Scopes,
   Stub_srcs : SUBSET Scopes,
   Current_api : SUBSET Scopes]

\* The flags of android.Config that the modelled code reads; ApiLibraries is
\* the key set of Config.GetApiLibraries().
Configs ==
  [AllowMissingDependencies : BOOLEAN,
   BuildFromTextStub : BOOLEAN,
   ReleaseHiddenApiExportableStubs : BOOLEAN,
   ApiLibraries : SUBSET LibraryNames]

Count(b) == IF b THEN 1 ELSE 0

\* In how many properties a declaration differs from the plainest one.
DeclarationDistance(d) ==
  Count(d.Name # "foo") + Count(~d.ModuleEnabled) + Count(~d.Srcs)
  + Count(~d.HasStandardLibs) + Count(d.Api_only) + Count(d.Shared_library # Unset)
  + Count(d.Unsafe_ignore_missing_latest_api) + Count(d.Naming_scheme # "default")
  + Cardinality({scope \in Scopes : d.Enabled[scope] # Unset})

\* How many properties of an import are set.
ImportDeclarationDistance(d) ==
  Count(d.Name # "foo") + Cardinality(d.Jars) + Cardinality(d.Stub_srcs)
  + Cardinality(d.Current_api)

Distance(d) ==
  IF d.Kind = "java_sdk_library" THEN DeclarationDistance(d) ELSE ImportDeclarationDistance(d)

\* How many flags of a configuration are on.
ConfigDistance(c) ==
  Count(c.AllowMissingDependencies) + Count(c.BuildFromTextStub)
  + Count(c.ReleaseHiddenApiExportableStubs) + Cardinality(c.ApiLibraries)

\* How many files the source tree lacks.
TreeDistance(t) == Cardinality(t.missing) + Count(~t.script)

----------------------------------------------------------------------------
(* The creation of the component modules of a java_sdk_library. *)

\* A module handed to mctx.CreateModule.
NewModule(factory, name, scope, srcs, staticLibs, apiContributions) ==
  [Factory |-> factory, Name |-> name, Scope |-> scope, Srcs |-> srcs,
   Static_libs |-> staticLibs, Api_contributions |-> apiContributions]

\* SdkLibrary.requiresRuntimeImplementationLibrary
requiresRuntimeImplementationLibrary(module) == ~module.Api_only

\* commonToSdkLibraryAndImport.sharedLibrary
sharedLibrary(module) == BoolDefault(module.Shared_library, TRUE)

\* SdkLibrary.contributesToApiSurface
contributesToApiSurface(module, cfg) == module.Name \in cfg.ApiLibraries

\* SdkLibrary.alternativeFullApiSurfaceStubLib, over the keys of
\* apiLibraryAdditionalProperties.
alternativeFullApiSurfaceStubLib(module) ==
  CASE module.Name = "legacy.i18n.module.platform.api" -> "legacy.core.platform.api.stubs"
    [] module.Name = "stable.i18n.module.platform.api" -> "stable.core.platform.api.stubs"
    [] module.Name = "conscrypt.module.platform.api" -> "stable.core.platform.api.stubs"
    [] OTHER -> ""

\* SdkLibrary.apiLibraryAdditionalApiContribution
apiLibraryAdditionalApiContribution(module) ==
  CASE module.Name = "legacy.i18n.module.platform.api" ->
         "i18n.module.public.api.stubs.source.api.contribution"
    [] module.Name = "stable.i18n.module.platform.api" ->
         "i18n.module.public.api.stubs.source.api.contribution"
    [] module.Name = "conscrypt.module.platform.api" ->
         "conscrypt.module.public.api.stubs.source.api.contribution"
    [] OTHER -> ""

\* A loop that collects the contributions from public down to the scope.
RECURSIVE extendsChainContributions_PublicFirst(_, _)
extendsChainContributions_PublicFirst(module, scope) ==
  IF scope = None THEN <<>>
  ELSE extendsChainContributions_PublicFirst(module, scopeExtends(scope))
       \o <<stubsSourceModuleName(scope, module.Name) \o ".api.contribution">>

\* The loop of createApiLibrary over scope, scope.extends, ...
RECURSIVE extendsChainContributions(_, _)
extendsChainContributions(module, scope) ==
  IF scope = None THEN <<>>
  ELSE <<stubsSourceModuleName(scope, module.Name) \o ".api.contribution">>
       \o extendsChainContributions(module, scopeExtends(scope))

\* SdkLibrary.createApiLibrary: the api_contributions of the from-text stubs.
apiContributions(module, apiScope) ==
  extendsChainContributions(module, apiScope)
  \o (IF apiScope = apiScopePublic /\ apiLibraryAdditionalApiContribution(module) # ""
        THEN <<apiLibraryAdditionalApiContribution(module)>> ELSE <<>>)

\* Top level stubs that take the from-text stubs whatever the build flag says.
topLevelStaticLib_IgnoreSwitch(module, cfg, apiScope, contributes) ==
  IF contributes
    THEN apiLibraryModuleName(apiScope, module.Name)
    ELSE sourceStubsLibraryModuleName(apiScope, module.Name)

\* SdkLibrary.createTopLevelStubsLibrary: the static lib of the top level stubs.
topLevelStaticLib(module, cfg, apiScope, contributes) ==
  IF cfg.BuildFromTextStub /\ contributes
    THEN apiLibraryModuleName(apiScope, module.Name)
    ELSE sourceStubsLibraryModuleName(apiScope, module.Name)

\* The body of the last loop of CreateInternalModules: the modules of one scope,
\* in the order in which they are created.
createScopeModules(module, cfg, scope) ==
  LET baseName == module.Name
      alt == IF scope = apiScopePublic THEN alternativeFullApiSurfaceStubLib(module) ELSE ""
      contributes == contributesToApiSurface(module, cfg) \/ alt # ""
  IN <<NewModule("droidstubs", stubsSourceModuleName(scope, baseName), scope, {}, <<>>, <<>>),
       NewModule("java_library", sourceStubsLibraryModuleName(scope, baseName), scope,
                 {":" \o stubsSourceModuleName(scope, baseName)}, <<>>, <<>>),
       NewModule("java_library", exportableSourceStubsLibraryModuleName(scope, baseName), scope,
                 {":" \o stubsSourceModuleName(scope, baseName) \o "{.exportable}"}, <<>>, <<>>)>>
     \o (IF contributes
          THEN <<NewModule("java_api_library", apiLibraryModuleName(scope, baseName), scope,
                           {}, <<>>, apiContributions(module, scope))>>
          ELSE <<>>)
     \o <<NewModule("java_library", stubsLibraryModuleName(scope, baseName), scope, {},
                    <<topLevelStaticLib(module, cfg, scope, contributes)>>, <<>>),
          NewModule("java_library", exportableStubsLibraryModuleName(scope, baseName), scope, {},
                    <<exportableSourceStubsLibraryModuleName(scope, baseName)>>, <<>>)>>

RECURSIVE createAllScopeModules(_, _, _)
createAllScopeModules(module, cfg, scopes) ==
  IF scopes = <<>> THEN <<>>
  ELSE createScopeModules(module, cfg, Head(scopes))
       \o createAllScopeModules(module, cfg, Tail(scopes))

\* A tail that creates the xml file whenever it creates the implementation library.
createRuntimeModules_NoSharedCheck(module) ==
  IF requiresRuntimeImplementationLibrary(module)
    THEN <<NewModule("java_library", implLibraryModuleName(module), None, {}, <<>>, <<>>),
           NewModule("sdkLibraryXml", xmlPermissionsModuleName(module), None, {}, <<>>, <<>>)>>
    ELSE <<>>

\* The tail of CreateInternalModules: the implementation library and the xml file.
createRuntimeModules(module) ==
  IF requiresRuntimeImplementationLibrary(module)
    THEN <<NewModule("java_library", implLibraryModuleName(module), None, {}, <<>>, <<>>)>>
         \o (IF sharedLibrary(module)
              THEN <<NewModule("sdkLibraryXml", xmlPermissionsModuleName(module), None,
                               {}, <<>>, <<>>)>>
              ELSE <<>>)
    ELSE <<>>

\* The checked-in api files of a scope: path.Join(ModuleDir, apiDir, prefix+api),
\* relative to the module directory, with the default api_dir.
apiFiles == <<"current.txt", "removed.txt">>
apiFilePath(scope, api) == "api/" \o apiFilePrefix(scope) \o api
AllApiFilePaths == {apiFilePath(scope, apiFiles[i]) : scope \in Scopes, i \in DOMAIN apiFiles}

genJavaCurrentApiFilesScript == "build/soong/scripts/gen-java-current-api-files.sh"

\* What a run of a hook leaves behind.
HookResult(status, module, newModules, newErrors, newMissingDeps) ==
  [status |-> status, props |-> module, created |-> newModules,
   errors |-> newErrors, missingDeps |-> newMissingDeps]

\* A check that reports a missing file whatever the configuration allows.
checkCurrentApiFiles_IgnoreAllowMissing(cfg, generatedScopes, missing) ==
  LET checked == {apiFilePath(generatedScopes[i], apiFiles[j]) :
                    i \in DOMAIN generatedScopes, j \in DOMAIN apiFiles}
      absent == checked \cap missing
  IN [errors |-> {[msg |-> "Current api file doesn't exist", path |-> path] : path \in absent},
      missingDeps |-> {}, missingCurrentApi |-> absent # {}]

\* The loop of CreateInternalModules over the current.txt and removed.txt of
\* the generated scopes: the errors it reports, the missing dependencies it
\* adds and its missingCurrentApi.
checkCurrentApiFiles(cfg, generatedScopes, missing) ==
  LET checked == {apiFilePath(generatedScopes[i], apiFiles[j]) :
                    i \in DOMAIN generatedScopes, j \in DOMAIN apiFiles}
      absent == checked \cap missing
  IN IF cfg.AllowMissingDependencies
       THEN [errors |-> {}, missingDeps |-> absent, missingCurrentApi |-> FALSE]
       ELSE [errors |-> {[msg |-> "Current api file doesn't exist", path |-> path] :
                           path \in absent},
             missingDeps |-> {}, missingCurrentApi |-> absent # {}]

\* SdkLibrary.CreateInternalModules. `missing` is the set of paths that do not
\* exist in the source tree, `scriptExists` whether the remediation script does.
CreateInternalModules(module, cfg, missing, scriptExists) ==
  IF ~module.ModuleEnabled THEN HookResult("returned", module, <<>>, {}, {})
  ELSE IF ~module.Srcs
    THEN HookResult("returned", module, <<>>,
                    {[msg |-> "java_sdk_library must specify srcs", property |-> "srcs"]}, {})
  ELSE
    LET m == [module EXCEPT !.Generate_system_and_test_apis = module.HasStandardLibs]
        generated == getGeneratedApiScopes(m)
        generatedScopes == generated.scopes
        files == checkCurrentApiFiles(cfg, generatedScopes, missing)
    IN IF files.missingCurrentApi
         THEN IF ~scriptExists
                THEN HookResult("panic", m, <<>>, generated.errors \cup files.errors, {})
                ELSE HookResult("returned", m, <<>>,
                       generated.errors \cup files.errors
                       \cup {[msg |-> "One or more current api files are missing",
                              script |-> genJavaCurrentApiFilesScript, dir |-> "api",
                              prefixes |-> [i \in DOMAIN generatedScopes |->
                                             apiFilePrefix(generatedScopes[i])]]},
                       {})
         ELSE HookResult("returned", m,
                createAllScopeModules(m, cfg, generatedScopes) \o createRuntimeModules(m),
                generated.errors, files.missingDeps)

\* commonToSdkLibraryAndImport.initCommonAfterDefaultsApplied: only the
\* "default" naming scheme exists.
initCommonAfterDefaultsApplied(module) == module.Naming_scheme = "default"

\* The defaultable hook that SdkLibraryFactory sets.
SdkLibraryHook(module, cfg, missing, scriptExists) ==
  LET inconsistent == ~requiresRuntimeImplementationLibrary(module) /\ Bool(module.Shared_library)
      hookErrors ==
        (IF inconsistent
           THEN {[msg |-> "inconsistent settings, shared_library and api_only cannot both be true",
                  property |-> "api_only/shared_library"]}
           ELSE {})
        \cup (IF initCommonAfterDefaultsApplied(module) THEN {}
              ELSE {[msg |-> "expected 'default'", property |-> "naming_scheme"]})
      m == IF requiresRuntimeImplementationLibrary(module) THEN module
           ELSE [module EXCEPT !.Shared_library = "false"]
  IN IF initCommonAfterDefaultsApplied(m)
       THEN LET r == CreateInternalModules(m, cfg, missing, scriptExists)
            IN [r EXCEPT !.errors = hookErrors \cup r.errors]
       ELSE HookResult("returned", m, <<>>, hookErrors, {})

----------------------------------------------------------------------------
(* The artifact path registry: scopePaths and the extractors of the tags. *)

ScopePathsFields ==
  {"stubsHeaderPath", "stubsImplPath", "stubsDexJarPath", "exportableStubsDexJarPath",
   "currentApiFilePath", "removedApiFilePath", "stubsSrcJar", "annotationsZip",
   "latestApiPath", "latestRemovedApiPath"}

\* &scopePaths{}: nil Paths, invalid OptionalPaths.
emptyScopePaths == [field \in ScopePathsFields |-> None]

\* The names initApiScope gives the scope dependency tags, without the scope.
prebuiltStubsTag == "stubs"
everythingStubsTag == "stubs-everything"
exportableStubsTag == "stubs-exportable"
stubsSourceTag == "stubs-source"
apiFileTag == "api"
stubsSourceAndApiTag == "stubs-source-and-api"
latestApiModuleTag == "latest-api"
latestRemovedApiModuleTag == "latest-removed-api"

ScopeTags ==
  {prebuiltStubsTag, everythingStubsTag, exportableStubsTag, stubsSourceTag, apiFileTag,
   stubsSourceAndApiTag, latestApiModuleTag, latestRemovedApiModuleTag}

\* What a dependency offers is decided by its module type.
hasJavaInfoProvider(dep) == dep.Factory \in {"java_library", "java_import", "java_api_library"}
isApiStubsProvider(dep) == dep.Factory = "droidstubs"
isApiStubsSrcProvider(dep) == dep.Factory \in {"droidstubs", "prebuilt_stubs_sources"}
isSourceFileProducer(dep) == dep.Factory = "filegroup"

\* The artifacts of a dependency, named after the module that builds them.
HeaderJars(dep) == dep.Name \o "/turbine-combined.jar"
ImplementationJars(dep) == dep.Name \o "/combined.jar"
DexJarBuildPath(dep) == dep.Name \o "/dex.jar"
AnnotationsZip(dep, stubsType) == dep.Name \o "/" \o stubsType \o "/annotations.zip"
ApiFilePath(dep, stubsType) == dep.Name \o "/" \o stubsType \o "/api.txt"
RemovedApiFilePath(dep, stubsType) == dep.Name \o "/" \o stubsType \o "/removed.txt"
StubsSrcJar(dep, stubsType) == dep.Name \o "/" \o stubsType \o "/stubs.srcjar"
SingleSrc(dep) == dep.Name \o "/src.txt"

Everything == "everything"
Exportable == "exportable"

Extracted(paths, err) == [paths |-> paths, err |-> err]

noJavaInfoError == "expected module that has JavaInfoProvider, e.g. java_library"

\* scopePaths.extractStubsLibraryInfoFromDependency
extractStubsLibraryInfoFromDependency(paths, cfg, dep) ==
  IF hasJavaInfoProvider(dep)
    THEN Extracted([paths EXCEPT !.stubsHeaderPath = HeaderJars(dep),
                                 !.stubsImplPath = ImplementationJars(dep),
                                 !.stubsDexJarPath = DexJarBuildPath(dep),
                                 !.exportableStubsDexJarPath = DexJarBuildPath(dep)], None)
    ELSE Extracted(paths, noJavaInfoError)

\* An extractor that leaves a field that is set alone.
extractEverythingStubsLibraryInfoFromDependency_KeepFirst(paths, cfg, dep) ==
  IF hasJavaInfoProvider(dep)
    THEN Extracted([paths EXCEPT !.stubsHeaderPath = IF @ = None THEN HeaderJars(dep) ELSE @,
                                 !.stubsImplPath =
                                    IF ~cfg.ReleaseHiddenApiExportableStubs /\ @ = None
                                      THEN ImplementationJars(dep) ELSE @,
                                 !.stubsDexJarPath =
                                    IF @ = None THEN DexJarBuildPath(dep) ELSE @], None)
    ELSE Extracted(paths, noJavaInfoError)

\* An extractor that holds back the dex jar as well as the implementation
\* jar when the exportable stubs are released.
extractEverythingStubsLibraryInfoFromDependency_GatesDexJar(paths, cfg, dep) ==
  IF hasJavaInfoProvider(dep)
    THEN Extracted([paths EXCEPT !.stubsHeaderPath = HeaderJars(dep),
                                 !.stubsImplPath =
                                    IF ~cfg.ReleaseHiddenApiExportableStubs
                                      THEN ImplementationJars(dep) ELSE @,
                                 !.stubsDexJarPath =
                                    IF ~cfg.ReleaseHiddenApiExportableStubs
                                      THEN DexJarBuildPath(dep) ELSE @], None)
    ELSE Extracted(paths, noJavaInfoError)

\* scopePaths.extractEverythingStubsLibraryInfoFromDependency
extractEverythingStubsLibraryInfoFromDependency(paths, cfg, dep) ==
  IF hasJavaInfoProvider(dep)
    THEN Extracted([paths EXCEPT !.stubsHeaderPath = HeaderJars(dep),
                                 !.stubsImplPath =
                                    IF ~cfg.ReleaseHiddenApiExportableStubs
                                      THEN ImplementationJars(dep) ELSE @,
                                 !.stubsDexJarPath = DexJarBuildPath(dep)], None)
    ELSE Extracted(paths, noJavaInfoError)

\* An extractor that assigns stubsImplPath whatever the release flag says.
extractExportableStubsLibraryInfoFromDependency_AlwaysImpl(paths, cfg, dep) ==
  IF hasJavaInfoProvider(dep)
    THEN Extracted([paths EXCEPT !.stubsImplPath = ImplementationJars(dep),
                                 !.exportableStubsDexJarPath = DexJarBuildPath(dep)], None)
    ELSE Extracted(paths, noJavaInfoError)

\* scopePaths.extractExportableStubsLibraryInfoFromDependency
extractExportableStubsLibraryInfoFromDependency(paths, cfg, dep) ==
  IF hasJavaInfoProvider(dep)
    THEN Extracted([paths EXCEPT !.stubsImplPath =
                                    IF cfg.ReleaseHiddenApiExportableStubs
                                      THEN ImplementationJars(dep) ELSE @,
                                 !.exportableStubsDexJarPath = DexJarBuildPath(dep)], None)
    ELSE Extracted(paths, noJavaInfoError)

\* scopePaths.extractApiInfoFromApiStubsProvider: the droidstubs accessors
\* answer for both stubs types.
extractApiInfoFromApiStubsProvider(paths, provider, stubsType) ==
  Extracted([paths EXCEPT !.annotationsZip = AnnotationsZip(provider, stubsType),
                          !.currentApiFilePath = ApiFilePath(provider, stubsType),
                          !.removedApiFilePath = RemovedApiFilePath(provider, stubsType)], None)

\* scopePaths.extractStubsSourceInfoFromApiStubsProviders
extractStubsSourceInfoFromApiStubsProviders(paths, provider, stubsType) ==
  Extracted([paths EXCEPT !.stubsSrcJar = StubsSrcJar(provider, stubsType)], None)

\* scopePaths.extractApiInfoFromDep (with treatDepAsApiStubsProvider)
extractApiInfoFromDep(paths, cfg, dep) ==
  IF isApiStubsProvider(dep)
    THEN extractApiInfoFromApiStubsProvider(paths, dep, Everything)
    ELSE Extracted(paths, "expected module that implements ExportableApiStubsSrcProvider, e.g. droidstubs")

\* scopePaths.extractStubsSourceInfoFromDep (with treatDepAsApiStubsSrcProvider)
extractStubsSourceInfoFromDep(paths, cfg, dep) ==
  IF isApiStubsSrcProvider(dep)
    THEN extractStubsSourceInfoFromApiStubsProviders(paths, dep, Everything)
    ELSE Extracted(paths, "expected module that implements ApiStubsSrcProvider, e.g. droidstubs")

\* scopePaths.extractStubsSourceAndApiInfoFromApiStubsProvider
extractStubsSourceAndApiInfoFromApiStubsProvider(paths, cfg, dep) ==
  LET stubsType == IF cfg.ReleaseHiddenApiExportableStubs THEN Exportable ELSE Everything
  IN IF isApiStubsProvider(dep)
       THEN extractStubsSourceInfoFromApiStubsProviders(
              extractApiInfoFromApiStubsProvider(paths, dep, stubsType).paths, dep, stubsType)
       ELSE Extracted(paths, "expected module that implements ExportableApiStubsSrcProvider, e.g. droidstubs")

\* extractSingleOptionalOutputPath: a filegroup of the latest api has one file.
extractSingleOptionalOutputPath(dep) ==
  IF isSourceFileProducer(dep)
    THEN [path |-> SingleSrc(dep), err |-> None]
    ELSE [path |-> None, err |-> "module does not produce source files"]

\* scopePaths.extractLatestApiPath: the field is assigned even when err is set.
extractLatestApiPath(paths, cfg, dep) ==
  LET out == extractSingleOptionalOutputPath(dep)
  IN Extracted([paths EXCEPT !.latestApiPath = out.path], out.err)

\* scopePaths.extractLatestRemovedApiPath
extractLatestRemovedApiPath(paths, cfg, dep) ==
  LET out == extractSingleOptionalOutputPath(dep)
  IN Extracted([paths EXCEPT !.latestRemovedApiPath = out.path], out.err)

\* initApiScope: the depInfoExtractor of each tag.
depInfoExtractor(tag, paths, cfg, dep) ==
  CASE tag = prebuiltStubsTag -> extractStubsLibraryInfoFromDependency(paths, cfg, dep)
    [] tag = everythingStubsTag -> extractEverythingStubsLibraryInfoFromDependency(paths, cfg, dep)
    [] tag = exportableStubsTag -> extractExportableStubsLibraryInfoFromDependency(paths, cfg, dep)
    [] tag = stubsSourceTag -> extractStubsSourceInfoFromDep(paths, cfg, dep)
    [] tag = apiFileTag -> extractApiInfoFromDep(paths, cfg, dep)
    [] tag = stubsSourceAndApiTag -> extractStubsSourceAndApiInfoFromApiStubsProvider(paths, cfg, dep)
    [] tag = latestApiModuleTag -> extractLatestApiPath(paths, cfg, dep)
    [] tag = latestRemovedApiModuleTag -> extractLatestRemovedApiPath(paths, cfg, dep)

\* The registry is a Go map from scope to *scopePaths: a function whose domain
\* is the set of scopes that have a record. A *scopePaths is modelled by the
\* scope whose record it points to, nil by None.
emptyRegistry == [scope \in {} |-> emptyScopePaths]

\* A lookup that creates a record for every scope at once.
getScopePathsCreateIfNeeded_EveryScope(registry, scope) ==
  [s \in Scopes |-> IF s \in DOMAIN registry THEN registry[s] ELSE emptyScopePaths]

\* commonToSdkLibraryAndImport.getScopePathsCreateIfNeeded: the registry with a
\* record for the scope.
getScopePathsCreateIfNeeded(registry, scope) ==
  IF scope \in DOMAIN registry THEN registry
  ELSE [s \in DOMAIN registry \cup {scope} |->
          IF s = scope THEN emptyScopePaths ELSE registry[s]]

\* commonToSdkLibraryAndImport.findScopePaths
findScopePaths(registry, scope) == IF scope \in DOMAIN registry THEN scope ELSE None

\* A search that stops at the requested scope.
findClosestScopePath_RequestedOnly(registry, scope) ==
  IF scope = None THEN None ELSE findScopePaths(registry, scope)

\* commonToSdkLibraryAndImport.findClosestScopePath: the loop over scope,
\* scope.canAccess, ...
RECURSIVE findClosestScopePath(_, _)
findClosestScopePath(registry, scope) ==
  IF scope = None THEN None
  ELSE IF findScopePaths(registry, scope) # None THEN findScopePaths(registry, scope)
  ELSE findClosestScopePath(registry, scopeCanAccess(scope))

\* android.SdkKind, as far as sdkKindToApiScope tells the kinds apart.
SdkPublic == "public"
SdkSystem == "system"
SdkTest == "test"
SdkModule == "module-lib"
SdkSystemServer == "system-server"
SdkCore == "core"
SdkKinds == {SdkPublic, SdkSystem, SdkTest, SdkModule, SdkSystemServer, SdkCore}

\* A mapping that takes the test kind for the system kind.
sdkKindToApiScope_TestAsSystem(kind) ==
  CASE kind = SdkSystem -> apiScopeSystem
    [] kind = SdkModule -> apiScopeModuleLib
    [] kind = SdkTest -> apiScopeSystem
    [] kind = SdkSystemServer -> apiScopeSystemServer
    [] OTHER -> apiScopePublic

\* sdkKindToApiScope
sdkKindToApiScope(kind) ==
  CASE kind = SdkSystem -> apiScopeSystem
    [] kind = SdkModule -> apiScopeModuleLib
    [] kind = SdkTest -> apiScopeTest
    [] kind = SdkSystemServer -> apiScopeSystemServer
    [] OTHER -> apiScopePublic

\* A selector that accepts the record of the requested scope only.
selectScopePaths_ExactOnly(registry, module, kind) ==
  LET apiScope == sdkKindToApiScope(kind)
      paths == findScopePaths(registry, apiScope)
  IN IF paths = None
       THEN [paths |-> None,
             errors |-> {[msg |-> "requires api scope but it only has these available",
                          requested |-> apiScope, library |-> module.Name,
                          available |-> SelectSeq(allApiScopes,
                                          LAMBDA s : findScopePaths(registry, s) # None)]}]
       ELSE [paths |-> paths, errors |-> {}]

\* commonToSdkLibraryAndImport.selectScopePaths: the record it returns and the
\* errors it reports to the consumer's context.
selectScopePaths(registry, module, kind) ==
  LET apiScope == sdkKindToApiScope(kind)
      paths == findClosestScopePath(registry, apiScope)
  IN IF paths = None
       THEN [paths |-> None,
             errors |-> {[msg |-> "requires api scope but it only has these available",
                          requested |-> apiScope, library |-> module.Name,
                          available |-> SelectSeq(allApiScopes,
                                          LAMBDA s : findScopePaths(registry, s) # None)]}]
       ELSE [paths |-> paths, errors |-> {}]

\* A traversal whose lookups go through getScopePathsCreateIfNeeded: a miss
\* leaves an empty record behind.
scopePathsAfterSelect_CreateIfNeeded(registry, kind) ==
  LET walk[scope \in Scopes \cup {None}] ==
        IF scope = None \/ scope \in DOMAIN registry THEN {}
        ELSE {scope} \cup walk[scopeCanAccess(scope)]
      missed == walk[sdkKindToApiScope(kind)]
  IN [scope \in DOMAIN registry \cup missed |->
        IF scope \in DOMAIN registry THEN registry[scope] ELSE emptyScopePaths]

\* What selectScopePaths leaves of c.scopePaths: findScopePaths, on every
\* scope of the walk of findClosestScopePath and on every scope when the
\* available scopes are listed, reads c.scopePaths[scope], and the read of a
\* key a Go map lacks yields nil and adds nothing to the map.
scopePathsAfterSelect(registry, kind) ==
  LET read(map, scope) == map
      walk[scope \in Scopes \cup {None}] ==
        IF scope = None THEN registry
        ELSE IF scope \in DOMAIN registry THEN read(registry, scope)
        ELSE read(walk[scopeCanAccess(scope)], scope)
  IN walk[sdkKindToApiScope(kind)]

----------------------------------------------------------------------------
(* The dependencies of a java_sdk_library on its components. *)

Edge(tag, scope, name) == [Tag |-> tag, Scope |-> scope, Name |-> name]

implLibraryTag == "impl-library"
xmlPermissionsFileTag == "xml-permissions-file"

\* SdkLibrary.compareAgainstLatestApi
compareAgainstLatestApi(module, apiScope) ==
  ~(scopeUnstable(apiScope) \/ module.Unsafe_ignore_missing_latest_api)

\* latestPrebuiltApiModuleName: <dist-stem>.api.<scope>.latest, dist_stem unset.
latestPrebuiltApiModuleName(name, apiScope) == name \o ".api." \o apiScope \o ".latest"

\* SdkLibrary.latestApiModuleName
latestApiModuleName(module, apiScope) == latestPrebuiltApiModuleName(module.Name, apiScope)

\* SdkLibrary.latestRemovedApiModuleName
latestRemovedApiModuleName(module, apiScope) ==
  latestPrebuiltApiModuleName(module.Name \o "-removed", apiScope)

\* The body of the loop of SdkLibrary.ComponentDepsMutator.
scopeEdges(module, apiScope) ==
  <<Edge(everythingStubsTag, apiScope, stubsLibraryModuleName(apiScope, module.Name)),
    Edge(exportableStubsTag, apiScope, exportableStubsLibraryModuleName(apiScope, module.Name)),
    Edge(stubsSourceAndApiTag, apiScope, stubsSourceModuleName(apiScope, module.Name))>>
  \o (IF compareAgainstLatestApi(module, apiScope)
        THEN <<Edge(latestApiModuleTag, apiScope, latestApiModuleName(module, apiScope)),
               Edge(latestRemovedApiModuleTag, apiScope,
                    latestRemovedApiModuleName(module, apiScope))>>
        ELSE <<>>)

RECURSIVE allScopeEdges(_, _)
allScopeEdges(module, scopes) ==
  IF scopes = <<>> THEN <<>>
  ELSE scopeEdges(module, Head(scopes)) \o allScopeEdges(module, Tail(scopes))

\* A mutator that depends on the xml permissions file of every library.
ComponentDepsMutator_AlwaysXml(module) ==
  allScopeEdges(module, getGeneratedApiScopes(module).scopes)
  \o (IF requiresRuntimeImplementationLibrary(module)
        THEN <<Edge(implLibraryTag, None, implLibraryModuleName(module))>> ELSE <<>>)
  \o <<Edge(xmlPermissionsFileTag, None, xmlPermissionsModuleName(module))>>

\* SdkLibrary.ComponentDepsMutator: the edges it adds, in order.
ComponentDepsMutator(module) ==
  allScopeEdges(module, getGeneratedApiScopes(module).scopes)
  \o (IF requiresRuntimeImplementationLibrary(module)
        THEN <<Edge(implLibraryTag, None, implLibraryModuleName(module))>>
             \o (IF sharedLibrary(module)
                  THEN <<Edge(xmlPermissionsFileTag, None, xmlPermissionsModuleName(module))>>
                  ELSE <<>>)
        ELSE <<>>)

\* The module an edge leads to: a component the library created, or else one
\* of the filegroups prebuilt_apis creates for the latest released api.
Target(edge, modules) ==
  IF \E i \in DOMAIN modules : modules[i].Name = edge.Name
    THEN LET i == CHOOSE i \in DOMAIN modules : modules[i].Name = edge.Name
         IN [Name |-> modules[i].Name, Factory |-> modules[i].Factory]
    ELSE [Name |-> edge.Name, Factory |-> "filegroup"]

\* scopeDependencyTag.extractDepInfo inside the visitor of
\* GenerateAndroidBuildActions: one edge visited.
visitDep(state, cfg, edge, dep) ==
  IF edge.Tag \in ScopeTags
    THEN LET registry == getScopePathsCreateIfNeeded(state.registry, edge.Scope)
             out == depInfoExtractor(edge.Tag, registry[edge.Scope], cfg, dep)
         IN [registry |-> [registry EXCEPT ![edge.Scope] = out.paths],
             errors |-> state.errors \cup
                          (IF out.err = None THEN {}
                           ELSE {[msg |-> "has an invalid scopeDependencyTag dependency",
                                  tag |-> edge.Tag, scope |-> edge.Scope, dep |-> dep.Name,
                                  err |-> out.err]}),
             visits |-> Append(state.visits, edge)]
    ELSE state

\* ctx.VisitDirectDeps in SdkLibrary.GenerateAndroidBuildActions.
RECURSIVE visitDirectDeps(_, _, _, _)
visitDirectDeps(state, cfg, edges, modules) ==
  IF edges = <<>> THEN state
  ELSE visitDirectDeps(visitDep(state, cfg, Head(edges), Target(Head(edges), modules)),
                       cfg, Tail(edges), modules)

\* SdkLibrary.GenerateAndroidBuildActions, as far as the registry goes.
GenerateAndroidBuildActions(registry, cfg, edges, modules) ==
  visitDirectDeps([registry |-> registry, errors |-> {}, visits |-> <<>>], cfg, edges, modules)

----------------------------------------------------------------------------
(* java_sdk_library_import: the prebuilt of a library. *)

\* android.PrebuiltNameFromSource
PrebuiltNameFromSource(name) == "prebuilt_" \o name

\* The orders in which a range over the scopeProperties map can meet the
\* scopes that have jars: Go leaves the order of a map range undefined.
ScopeOrders(module) ==
  {order \in [1..Cardinality(module.Jars) -> module.Jars] :
     \A i, j \in DOMAIN order : i # j => order[i] # order[j]}

\* The body of the loop of SdkLibraryImport.createInternalModules:
\* createJavaImportForStubs, createPrebuiltStubsSources,
\* createPrebuiltApiContribution.
createImportScopeModules(module, apiScope) ==
  <<NewModule("java_import",
              PrebuiltNameFromSource(stubsLibraryModuleName(apiScope, module.Name)),
              apiScope, {}, <<>>, <<>>)>>
  \o (IF apiScope \in module.Stub_srcs
        THEN <<NewModule("prebuilt_stubs_sources",
                         PrebuiltNameFromSource(stubsSourceModuleName(apiScope, module.Name)),
                         apiScope, {}, <<>>, <<>>)>>
        ELSE <<>>)
  \o (IF apiScope \in module.Current_api
        THEN <<NewModule("java_api_contribution_import",
                         PrebuiltNameFromSource(stubsSourceModuleName(apiScope, module.Name)
                                                \o ".api.contribution"),
                         apiScope, {}, <<>>, <<>>)>>
        ELSE <<>>)

\* SdkLibraryImport.createInternalModules
RECURSIVE createInternalModules(_, _)
createInternalModules(module, order) ==
  IF order = <<>> THEN <<>>
  ELSE createImportScopeModules(module, Head(order))
       \o createInternalModules(module, Tail(order))

\* The body of the loop of SdkLibraryImport.ComponentDepsMutator.
importScopeEdges(module, apiScope) ==
  <<Edge(prebuiltStubsTag, apiScope,
         PrebuiltNameFromSource(stubsLibraryModuleName(apiScope, module.Name)))>>
  \o (IF apiScope \in module.Stub_srcs
        THEN <<Edge(stubsSourceTag, apiScope,
                    PrebuiltNameFromSource(stubsSourceModuleName(apiScope, module.Name)))>>
        ELSE <<>>)

\* SdkLibraryImport.ComponentDepsMutator
RECURSIVE ImportComponentDepsMutator(_, _)
ImportComponentDepsMutator(module, order) ==
  IF order = <<>> THEN <<>>
  ELSE importScopeEdges(module, Head(order)) \o ImportComponentDepsMutator(module, Tail(order))

\* android.OptionalPathForModuleSrc of a property of the scope.
OptionalPathForModuleSrc(module, apiScope, property) ==
  IF property = "current_api" /\ apiScope \in module.Current_api
    THEN module.Name \o "/" \o apiScope \o "/current.txt"
    ELSE None

\* The second loop of SdkLibraryImport.GenerateAndroidBuildActions: the
\* records of the scopes with jars get the paths of the properties. The
\* assignments to different scopes commute, so the set is folded in any order.
RECURSIVE populateFromProperties(_, _, _)
populateFromProperties(registry, module, scopes) ==
  IF scopes = {} THEN registry
  ELSE LET apiScope == CHOOSE scope \in scopes : TRUE
           withRecord == getScopePathsCreateIfNeeded(registry, apiScope)
       IN populateFromProperties(
            [withRecord EXCEPT
               ![apiScope].annotationsZip = OptionalPathForModuleSrc(module, apiScope, "annotations"),
               ![apiScope].currentApiFilePath = OptionalPathForModuleSrc(module, apiScope, "current_api"),
               ![apiScope].removedApiFilePath = OptionalPathForModuleSrc(module, apiScope, "removed_api")],
            module, scopes \ {apiScope})

\* SdkLibraryImport.GenerateAndroidBuildActions, as far as the registry goes.
ImportGenerateAndroidBuildActions(registry, module, cfg, edges, modules) ==
  LET visited == visitDirectDeps([registry |-> registry, errors |-> {}, visits |-> <<>>],
                                 cfg, edges, modules)
  IN [visited EXCEPT !.registry = populateFromProperties(@, module, module.Jars)]

----------------------------------------------------------------------------
(* The life of one library module. *)

SubsetsUpTo(S, n) == {T \in SUBSET S : Cardinality(T) <= n}

Init ==
  /\ pc = "declared"
  /\ props \in {d \in SdkLibraryDeclarations \cup SdkLibraryImportDeclarations :
                  Distance(d) <= MaxNonDefault}
  /\ config \in {c \in Configs : ConfigDistance(c) + Distance(props) <= MaxNonDefault}
  /\ tree \in {t \in [missing : SubsetsUpTo(AllApiFilePaths, MaxMissing), script : BOOLEAN] :
                 TreeDistance(t) + ConfigDistance(config) + Distance(props) <= MaxNonDefault}
  /\ created = <<>>
  /\ errors = {}
  /\ missingDeps = {}
  /\ deps = <<>>
  /\ scopePaths = emptyRegistry
  /\ visits = <<>>
  /\ result = [kind |-> None, paths |-> None, errors |-> {}]

\* The defaultable hooks run: the library creates its component modules.
RunDefaultableHook ==
  /\ pc = "declared"
  /\ props.Kind = "java_sdk_library"
  /\ LET r == SdkLibraryHook(props, config, tree.missing, tree.script)
     IN /\ pc' = IF r.status = "panic" THEN "panic" ELSE "hooked"
        /\ props' = r.props
        /\ created' = r.created
        /\ errors' = r.errors
        /\ missingDeps' = r.missingDeps
  /\ UNCHANGED <<config, tree, deps, scopePaths, visits, result>>

\* The component deps mutator runs, unless the hooks reported an error (the
\* build stops after the phase that reported it) or the module is disabled.
RunComponentDepsMutator ==
  /\ pc = "hooked"
  /\ props.Kind = "java_sdk_library"
  /\ errors = {}
  /\ props.ModuleEnabled
  /\ pc' = "deps"
  /\ deps' = ComponentDepsMutator(props)
  /\ UNCHANGED <<props, config, tree, created, errors, missingDeps, scopePaths, visits, result>>

\* The build actions of the library are generated: its direct dependencies
\* are visited and the registry filled.
RunGenerateAndroidBuildActions ==
  /\ pc = "deps"
  /\ props.Kind = "java_sdk_library"
  /\ LET r == GenerateAndroidBuildActions(scopePaths, config, deps, created)
     IN /\ scopePaths' = r.registry
        /\ errors' = errors \cup r.errors
        /\ visits' = r.visits
  /\ pc' = "generated"
  /\ UNCHANGED <<props, config, tree, created, missingDeps, deps, result>>

\* A consumer asks the library for the paths of an sdk kind.
Request ==
  /\ pc = "generated"
  /\ \E kind \in SdkKinds :
       /\ result' = [kind |-> kind,
                     paths |-> selectScopePaths(scopePaths, props, kind).paths,
                     errors |-> selectScopePaths(scopePaths, props, kind).errors]
       /\ scopePaths' = scopePathsAfterSelect(scopePaths, kind)
  /\ UNCHANGED <<pc, props, config, tree, created, errors, missingDeps, deps, visits>>

\* The defaultable hook of an import creates its component modules.
RunImportDefaultableHook ==
  /\ pc = "declared"
  /\ props.Kind = "java_sdk_library_import"
  /\ \E order \in ScopeOrders(props) : created' = createInternalModules(props, order)
  /\ pc' = "hooked"
  /\ UNCHANGED <<props, config, tree, errors, missingDeps, deps, scopePaths, visits, result>>

RunImportComponentDepsMutator ==
  /\ pc = "hooked"
  /\ props.Kind = "java_sdk_library_import"
  /\ \E order \in ScopeOrders(props) : deps' = ImportComponentDepsMutator(props, order)
  /\ pc' = "deps"
  /\ UNCHANGED <<props, config, tree, created, errors, missingDeps, scopePaths, visits, result>>

RunImportGenerateAndroidBuildActions ==
  /\ pc = "deps"
  /\ props.Kind = "java_sdk_library_import"
  /\ LET r == ImportGenerateAndroidBuildActions(scopePaths, props, config, deps, created)
     IN /\ scopePaths' = r.registry
        /\ errors' = errors \cup r.errors
        /\ visits' = r.visits
  /\ pc' = "generated"
  /\ UNCHANGED <<props, config, tree, created, missingDeps, deps, result>>

Next ==
  \/ RunDefaultableHook
  \/ RunImportDefaultableHook
  \/ RunImportComponentDepsMutator
  \/ RunImportGenerateAndroidBuildActions
  \/ RunComponentDepsMutator
  \/ RunGenerateAndroidBuildActions
  \/ Request

Spec == Init /\ [][Next]_vars

----------------------------------------------------------------------------
(* The scope enablement resolver on its own, over every assignment of the
   overrides. *)

\* A java_sdk_library with srcs and nothing else set.
PlainDeclaration ==
  [Kind |-> "java_sdk_library", Name |-> "foo", ModuleEnabled |-> TRUE, Srcs |-> TRUE,
   HasStandardLibs |-> TRUE, Enabled |-> [scope \in Scopes |-> Unset], Api_only |-> FALSE,
   Shared_library |-> Unset, Unsafe_ignore_missing_latest_api |-> FALSE,
   Naming_scheme |-> "default", Generate_system_and_test_apis |-> FALSE]

\* Every assignment of the five overrides, with either value of
\* Generate_system_and_test_apis.
ResolverInputs ==
  {[PlainDeclaration EXCEPT !.Enabled = enabled, !.Generate_system_and_test_apis = flag] :
     enabled \in [Scopes -> OptBool], flag \in BOOLEAN}

InitResolver ==
  /\ pc = "resolving"
  /\ props \in ResolverInputs
  /\ config = [AllowMissingDependencies |-> FALSE, BuildFromTextStub |-> FALSE,
               ReleaseHiddenApiExportableStubs |-> FALSE, ApiLibraries |-> {}]
  /\ tree = [missing |-> {}, script |-> TRUE]
  /\ created = <<>>
  /\ errors = {}
  /\ missingDeps = {}
  /\ deps = <<>>
  /\ scopePaths = emptyRegistry
  /\ visits = <<>>
  /\ result = [scopes |-> <<>>, errors |-> {}]

\* module.getGeneratedApiScopes(ctx) is called.
Resolve ==
  /\ pc = "resolving"
  /\ result' = getGeneratedApiScopes(props)
  /\ errors' = result'.errors
  /\ pc' = "resolved"
  /\ UNCHANGED <<props, config, tree, created, missingDeps, deps, scopePaths, visits>>

NextResolver == Resolve

SpecResolver == InitResolver /\ [][NextResolver]_vars

\* The scopes a resolver call returned.
Returned == {result.scopes[i] : i \in DOMAIN result.scopes}

\* The parent a scope extends, as the lattice is documented: system extends
\* public, test and module-lib extend system, system-server extends public.
DocumentedParent ==
  [scope \in {"system", "test", "module-lib", "system-server"} |->
     CASE scope = "system" -> "public"
       [] scope = "test" -> "system"
       [] scope = "module-lib" -> "system"
       [] scope = "system-server" -> "public"]

\* The returned scopes whose parent was not returned.
NotDownClosed == {scope \in Returned \cap DOMAIN DocumentedParent :
                    DocumentedParent[scope] \notin Returned}

\* C1: for every assignment of the five overrides and either value of the
\* system-and-test flag, getGeneratedApiScopes reports a "depends on disabled
\* scope" error exactly when some enabled scope extends a scope that is not
\* enabled, one error for each such scope, naming the scope and its parent.
C1_ErrorIffNotDownClosed ==
  pc = "resolved" =>
    /\ (result.errors # {}) <=> (NotDownClosed # {})
    /\ result.errors = {[msg |-> "enabled api scope depends on disabled scope",
                         scope |-> scope, extends |-> DocumentedParent[scope]] :
                        scope \in NotDownClosed}

\* test is enabled alone with public: it depends on the disabled system.
C1_Witness ==
  /\ pc = "resolved"
  /\ Returned = {"public", "test"}
  /\ \E e \in result.errors : e.scope = "test" /\ e.extends = "system"

\* The status the documentation gives a scope of the resolved library.
DocumentedStatus(scope) ==
  IF props.Enabled[scope] # Unset THEN props.Enabled[scope] = "true"
  ELSE IF \E other \in Scopes : props.Enabled[other] # Unset THEN scope = "public"
  ELSE \/ scope = "public"
       \/ scope \in {"system", "test"} /\ props.Generate_system_and_test_apis

\* C7: getGeneratedApiScopes returns exactly the scopes whose status is the
\* override if set, else in explicit mode the static default (public only),
\* else the legacy status (public; system and test iff the library generates
\* system and test apis); with only system.enabled = true it returns
\* public and system.
C7_ReturnedScopes ==
  pc = "resolved" =>
    /\ Returned = {scope \in Scopes : DocumentedStatus(scope)}
    /\ Len(result.scopes) = Cardinality(Returned)
    /\ (props.Enabled = [scope \in Scopes |-> IF scope = "system" THEN "true" ELSE Unset]
          => result.scopes = <<"public", "system">>)

\* Only system.enabled = true is set, and the call returned.
C7_Witness ==
  /\ pc = "resolved"
  /\ props.Enabled = [scope \in Scopes |-> IF scope = "system" THEN "true" ELSE Unset]
  /\ Returned = {"public", "system"}

----------------------------------------------------------------------------
(* The selection of a scope for a consumer. *)

\* The scope a consumer's sdk kind asks for, as documented.
RequestedScope ==
  CASE result.kind = "system" -> "system"
    [] result.kind = "test" -> "test"
    [] result.kind = "module-lib" -> "module-lib"
    [] result.kind = "system-server" -> "system-server"
    [] OTHER -> "public"

\* The documented order in which the selector tries the scopes.
AccessChain ==
  [scope \in Scopes |->
     CASE scope = "public" -> <<"public">>
       [] scope = "system" -> <<"system", "public">>
       [] scope = "test" -> <<"test", "system", "public">>
       [] scope = "module-lib" -> <<"module-lib", "system", "public">>
       [] scope = "system-server" -> <<"system-server", "module-lib", "system", "public">>]

\* The scopes that have a record.
Populated == DOMAIN scopePaths

\* The first scope of a chain that has a record, None if there is none.
FirstPopulated(chain) ==
  IF \E i \in DOMAIN chain : chain[i] \in Populated
    THEN chain[CHOOSE i \in DOMAIN chain :
                 /\ chain[i] \in Populated
                 /\ \A j \in 1..(i - 1) : chain[j] \notin Populated]
    ELSE None

Requested == pc = "generated" /\ result.kind # None

\* C2: for every requested kind and every set of scopes with a record,
\* selectScopePaths returns the record of the first scope that has one on the
\* chain requested scope, its canAccess, ...; if none has, it returns nothing
\* and reports an error naming the requested scope, the library and the
\* scopes that have a record. A module-lib request against a library with
\* only public returns public's record without error.
C2_FirstOnAccessChain ==
  Requested =>
    /\ result.paths = FirstPopulated(AccessChain[RequestedScope])
    /\ IF FirstPopulated(AccessChain[RequestedScope]) # None
         THEN result.errors = {}
         ELSE result.errors =
                {[msg |-> "requires api scope but it only has these available",
                  requested |-> RequestedScope, library |-> props.Name,
                  available |-> SelectSeq(<<"public", "system", "test", "module-lib",
                                            "system-server">>,
                                          LAMBDA scope : scope \in Populated)]}
    /\ (result.kind = "module-lib" /\ Populated = {"public"}
          => result.paths = "public" /\ result.errors = {})

\* A module-lib request reached a library that has only public.
C2_Witness ==
  /\ Requested
  /\ result.kind = "module-lib"
  /\ Populated = {"public"}
  /\ result.paths = "public"

\* C3: a system-server request against a registry with a record only for
\* module-lib returns that record without error; when module-lib and public
\* both have records and system-server has none, it returns module-lib's.
C3_CanAccessBeforeExtends ==
  (Requested /\ result.kind = "system-server") =>
    /\ Populated = {"module-lib"} => result.paths = "module-lib" /\ result.errors = {}
    /\ ({"module-lib", "public"} \subseteq Populated /\ "system-server" \notin Populated)
         => result.paths = "module-lib"

\* A system-server request reached a library with records for module-lib
\* and public only.
C3_Witness ==
  /\ Requested
  /\ result.kind = "system-server"
  /\ Populated = {"module-lib", "public"}
  /\ result.paths = "module-lib"
  /\ result.errors = {}

\* C4 as stated: if A has a record, B is the scope A extends and B has none,
\* a request for B resolves to A's record.
C4_ParentResolvesToChild ==
  Requested =>
    \A A \in Populated :
      (scopeExtends(A) = RequestedScope /\ RequestedScope \notin Populated)
        => result.paths = A

\* C4: if A has a record, A is the scope B can access and B has none, a
\* request for B resolves to A's record, without error.
C4_ResolvesToAccessed ==
  Requested =>
    \A A \in Populated :
      (Len(AccessChain[RequestedScope]) > 1 /\ AccessChain[RequestedScope][2] = A
       /\ RequestedScope \notin Populated)
        => result.paths = A /\ result.errors = {}

\* A request for system reached a library that has a record for public and
\* none for system.
C4_Witness ==
  /\ Requested
  /\ result.kind = "system"
  /\ "public" \in Populated
  /\ "system" \notin Populated
  /\ result.paths = "public"

\* Is scope A on the access chain of the scope?
Reaches(scope, A) == \E i \in DOMAIN AccessChain[scope] : AccessChain[scope][i] = A

\* C5 as stated: if A has a record, a request for any scope whose access
\* chain reaches A resolves to the record a request for A returns.
C5_SameAsRequestForA ==
  Requested =>
    \A A \in Populated :
      Reaches(RequestedScope, A) => result.paths = findClosestScopePath(scopePaths, A)

\* C5: if A has a record, a request for a scope whose access chain reaches A
\* with no record on the way to A resolves to the record a request for A
\* returns.
C5_SameAsRequestForFirst ==
  Requested =>
    \A A \in Populated :
      (\E i \in DOMAIN AccessChain[RequestedScope] :
         /\ AccessChain[RequestedScope][i] = A
         /\ \A j \in 1..(i - 1) : AccessChain[RequestedScope][j] \notin Populated)
        => /\ result.paths = findClosestScopePath(scopePaths, A)
           /\ result.paths = A

\* A system-server request went past module-lib and system to public.
C5_Witness ==
  /\ Requested
  /\ result.kind = "system-server"
  /\ Populated = {"public", "test"}
  /\ result.paths = "public"

----------------------------------------------------------------------------
(* The defaultable hook of a java_sdk_library. *)

IsLibrary == props.Kind = "java_sdk_library"

\* The hook of the library has run.
Hooked == IsLibrary /\ pc \in {"hooked", "panic", "deps", "generated"}

\* The errors of getGeneratedApiScopes among the reported errors.
ScopeErrors == {e \in errors : e.msg = "enabled api scope depends on disabled scope"}

\* The errors about a missing api file among the reported errors.
FileErrors == {e \in errors : e.msg = "Current api file doesn't exist"}

\* The error that names the remediation script among the reported errors.
ScriptErrors == {e \in errors : e.msg = "One or more current api files are missing"}

\* C8 as stated: if the resolved enable set is not down-closed,
\* CreateInternalModules creates no derived module.
C8_NoModuleCreated ==
  (Hooked /\ ScopeErrors # {}) => created = <<>>

\* C8: if the resolved enable set is not down-closed the error is reported,
\* so that no later phase runs for the library, but CreateInternalModules goes
\* on: unless an api file is missing it creates the stubs source of every
\* enabled scope, the scope with the disabled parent included.
C8_ReportedButCreated ==
  (IsLibrary /\ ScopeErrors # {}) =>
    /\ pc \in {"hooked", "panic"}
    /\ deps = <<>>
    /\ FileErrors = {} =>
         \A e \in ScopeErrors :
           \E i \in DOMAIN created : /\ created[i].Scope = e.scope
                                      /\ created[i].Factory = "droidstubs"

\* test is enabled and system, which it extends, is not: the error is
\* reported and the stubs source of test is created.
C8_Witness ==
  /\ Hooked
  /\ \E e \in ScopeErrors : e.scope = "test" /\ e.extends = "system"
  /\ \E i \in DOMAIN created : created[i].Name = "foo.stubs.source.test"

\* The status of a scope of the library, from its declaration.
DeclaredStatus(scope) ==
  IF props.Enabled[scope] # Unset THEN props.Enabled[scope] = "true"
  ELSE IF \E other \in Scopes : props.Enabled[other] # Unset THEN scope = "public"
  ELSE scope = "public" \/ (scope \in {"system", "test"} /\ props.HasStandardLibs)

\* The api files of the enabled scopes that the source tree lacks.
MissingApiFiles ==
  tree.missing \cap {apiFilePath(scope, apiFiles[i]) :
                       scope \in {s \in Scopes : DeclaredStatus(s)}, i \in DOMAIN apiFiles}

\* C9 as stated: if an api file of an enabled scope is missing and the
\* library has not set unsafe_ignore_missing_latest_api, CreateInternalModules
\* (of an enabled library with srcs, the remediation script being there)
\* reports an error for each missing file and one naming the remediation
\* script, and creates no module, under every configuration.
C9_MissingFileIsFatal ==
  (/\ Hooked
   /\ MissingApiFiles # {}
   /\ ~props.Unsafe_ignore_missing_latest_api
   /\ props.ModuleEnabled /\ props.Srcs /\ props.Naming_scheme = "default"
   /\ tree.script) =>
    /\ \A path \in MissingApiFiles : \E e \in FileErrors : e.path = path
    /\ \E e \in ScriptErrors : e.script = "build/soong/scripts/gen-java-current-api-files.sh"
    /\ created = <<>>

\* C9: CreateInternalModules of an enabled library with srcs, whether or not
\* it sets unsafe_ignore_missing_latest_api, finds an api file of an enabled
\* scope missing. If the configuration allows missing dependencies it adds
\* the file to the missing dependencies, reports no error about it and
\* creates the modules. Otherwise it reports an error for each missing file
\* and creates no module; it reports the error naming the remediation script
\* if the script exists and panics if it does not.
C9_MissingFileUnlessAllowed ==
  (/\ Hooked
   /\ MissingApiFiles # {}
   /\ props.ModuleEnabled /\ props.Srcs /\ props.Naming_scheme = "default") =>
    IF config.AllowMissingDependencies
      THEN /\ missingDeps = MissingApiFiles
           /\ FileErrors = {} /\ ScriptErrors = {}
           /\ created # <<>>
      ELSE /\ {e.path : e \in FileErrors} = MissingApiFiles
           /\ missingDeps = {}
           /\ created = <<>>
           /\ IF tree.script
                THEN /\ pc = "hooked"
                     /\ \E e \in ScriptErrors :
                          e.script = "build/soong/scripts/gen-java-current-api-files.sh"
                ELSE pc = "panic" /\ ScriptErrors = {}

\* Missing dependencies are allowed and api/system-current.txt is missing:
\* it is a missing dependency and the modules are created. The library sets
\* unsafe_ignore_missing_latest_api.
C9_Witness ==
  /\ Hooked
  /\ config.AllowMissingDependencies
  /\ props.Unsafe_ignore_missing_latest_api
  /\ MissingApiFiles = {"api/system-current.txt"}
  /\ missingDeps = {"api/system-current.txt"}
  /\ errors = {}
  /\ \E i \in DOMAIN created : created[i].Name = "foo.stubs.system"

\* The module suffix of each scope, as documented.
ScopeSuffix ==
  [scope \in Scopes |->
     CASE scope = "public" -> ""
       [] scope = "system" -> ".system"
       [] scope = "test" -> ".test"
       [] scope = "module-lib" -> ".module_lib"
       [] scope = "system-server" -> ".system_server"]

\* The suffix of each kind of module: what follows the base name in the name
\* of the module of the public scope, whose suffix is empty.
KindSuffixes ==
  {".stubs.source", ".stubs", ".stubs.exportable", ".stubs.from-source",
   ".stubs.exportable.from-source", ".stubs.from-text"}

\* The modules of the scopes among the created modules.
ScopeModules == {created[i] : i \in {j \in DOMAIN created : created[j].Scope # None}}

\* C10 as stated: the name of every module of a scope is the base name, then
\* the suffix of the scope, then the suffix of the kind.
C10_ScopeThenKind ==
  IsLibrary =>
    \A m \in ScopeModules :
      \E kind \in KindSuffixes : m.Name = props.Name \o ScopeSuffix[m.Scope] \o kind

\* C10: the name of a module of a scope is the base name, then ".stubs.source",
\* ".stubs" or ".stubs.exportable", then the suffix of the scope, then
\* ".from-source" or ".from-text" for the stubs built from source or from
\* text: a function of the base name, the scope and the kind. The names of
\* the created modules are distinct and each scope with modules has those of
\* the five kinds that do not depend on the configuration.
C10_KindThenScope ==
  IsLibrary =>
    /\ \A m \in ScopeModules :
         LET base == props.Name
             suffix == ScopeSuffix[m.Scope]
         IN CASE m.Factory = "droidstubs" -> m.Name = base \o ".stubs.source" \o suffix
              [] m.Factory = "java_api_library" ->
                   m.Name = base \o ".stubs" \o suffix \o ".from-text"
              [] m.Factory = "java_library" ->
                   m.Name \in {base \o ".stubs" \o suffix,
                               base \o ".stubs.exportable" \o suffix,
                               base \o ".stubs" \o suffix \o ".from-source",
                               base \o ".stubs.exportable" \o suffix \o ".from-source"}
              [] OTHER -> FALSE
    /\ \A m \in ScopeModules :
         {props.Name \o ".stubs.source" \o ScopeSuffix[m.Scope],
          props.Name \o ".stubs" \o ScopeSuffix[m.Scope],
          props.Name \o ".stubs.exportable" \o ScopeSuffix[m.Scope],
          props.Name \o ".stubs" \o ScopeSuffix[m.Scope] \o ".from-source",
          props.Name \o ".stubs.exportable" \o ScopeSuffix[m.Scope] \o ".from-source"}
           \subseteq {n.Name : n \in ScopeModules}
    /\ Cardinality({created[i].Name : i \in DOMAIN created}) = Len(created)

\* The modules of the system scope of foo were created, the stubs from text
\* among them.
C10_Witness ==
  /\ Hooked
  /\ props.Name = "foo"
  /\ {"foo.stubs.source.system", "foo.stubs.system", "foo.stubs.exportable.system",
      "foo.stubs.system.from-source", "foo.stubs.exportable.system.from-source",
      "foo.stubs.system.from-text"} \subseteq {m.Name : m \in ScopeModules}

----------------------------------------------------------------------------
(* The extractors on their own: any edges visited in any order, the same tag
   and scope more than once included. *)

\* The modules the visited edges lead to: two java libraries, two droidstubs
\* and two filegroups.
ExtractDeps ==
  {[Name |-> "lib1", Factory |-> "java_library"], [Name |-> "lib2", Factory |-> "java_library"],
   [Name |-> "stubs1", Factory |-> "droidstubs"], [Name |-> "stubs2", Factory |-> "droidstubs"],
   [Name |-> "files1", Factory |-> "filegroup"], [Name |-> "files2", Factory |-> "filegroup"]}

ExtractScopes == {apiScopePublic, apiScopeSystem}

InitExtract ==
  /\ pc = "extracting"
  /\ props = PlainDeclaration
  /\ config \in {c \in Configs : /\ ~c.AllowMissingDependencies
                                 /\ ~c.BuildFromTextStub
                                 /\ c.ApiLibraries = {}}
  /\ tree = [missing |-> {}, script |-> TRUE]
  /\ created = <<>>
  /\ errors = {}
  /\ missingDeps = {}
  /\ deps = <<>>
  /\ scopePaths = emptyRegistry
  /\ visits = <<>>
  /\ result = [kind |-> None, paths |-> None, errors |-> {}]

\* The visitor of GenerateAndroidBuildActions meets one more edge.
VisitEdge ==
  /\ pc = "extracting"
  /\ Len(visits) < MaxVisits
  /\ \E tag \in ScopeTags, scope \in ExtractScopes, dep \in ExtractDeps :
       LET r == visitDep([registry |-> scopePaths, errors |-> errors, visits |-> visits],
                         config, Edge(tag, scope, dep.Name), dep)
       IN /\ scopePaths' = r.registry
          /\ errors' = r.errors
          /\ visits' = r.visits
  /\ UNCHANGED <<pc, props, config, tree, created, missingDeps, deps, result>>

NextExtract == VisitEdge

SpecExtract == InitExtract /\ [][NextExtract]_vars

\* Does a value come from the module of that name?
FromModule(value, name) ==
  /\ value # None
  /\ Len(value) > Len(name)
  /\ SubSeq(value, 1, Len(name)) = name

\* The module types whose modules give the extractor of a tag what it asks
\* for, by the name of the module.
Provides(name, tag) ==
  CASE tag \in {"stubs", "stubs-everything", "stubs-exportable"} -> name \in {"lib1", "lib2"}
    [] tag \in {"stubs-source", "api", "stubs-source-and-api"} -> name \in {"stubs1", "stubs2"}
    [] OTHER -> name \in {"files1", "files2"}

\* The fields the extractor of a tag assigns.
Assigns(tag) ==
  CASE tag = "stubs" ->
         {"stubsHeaderPath", "stubsImplPath", "stubsDexJarPath", "exportableStubsDexJarPath"}
    [] tag = "stubs-everything" ->
         {"stubsHeaderPath", "stubsDexJarPath"}
         \cup (IF config.ReleaseHiddenApiExportableStubs THEN {} ELSE {"stubsImplPath"})
    [] tag = "stubs-exportable" ->
         {"exportableStubsDexJarPath"}
         \cup (IF config.ReleaseHiddenApiExportableStubs THEN {"stubsImplPath"} ELSE {})
    [] tag = "stubs-source" -> {"stubsSrcJar"}
    [] tag = "api" -> {"annotationsZip", "currentApiFilePath", "removedApiFilePath"}
    [] tag = "stubs-source-and-api" ->
         {"stubsSrcJar", "annotationsZip", "currentApiFilePath", "removedApiFilePath"}
    [] tag = "latest-api" -> {"latestApiPath"}
    [] tag = "latest-removed-api" -> {"latestRemovedApiPath"}

----------------------------------------------------------------------------
(* The permissions XML module, sdkLibraryXml, on its own: every assignment
   of the four api level attributes and of the minimum api level of the
   library. *)

\* android.ApiLevelFromUser: the api level a raw string stands for. A
\* number is itself, the codename of a finalized release is the number of
\* the release, "current" is the future api level and anything else does
\* not parse.
ApiLevelFromUser(raw) ==
  CASE raw = "30" -> [err |-> None, number |-> 30, text |-> "30", isCurrent |-> FALSE]
    [] raw = "S" -> [err |-> None, number |-> 31, text |-> "31", isCurrent |-> FALSE]
    [] raw = "33" -> [err |-> None, number |-> 33, text |-> "33", isCurrent |-> FALSE]
    [] raw = "Tiramisu" -> [err |-> None, number |-> 33, text |-> "33", isCurrent |-> FALSE]
    [] raw = "34" -> [err |-> None, number |-> 34, text |-> "34", isCurrent |-> FALSE]
    [] raw = "current" -> [err |-> None, number |-> 10000, text |-> "current", isCurrent |-> TRUE]
    [] OTHER -> [err |-> raw \o " could not be parsed as an integer and is not a recognized codename",
                 number |-> 0, text |-> "", isCurrent |-> FALSE]

\* The properties of the sdkLibraryXml modules the model covers: a library
\* foo on the system partition, for the platform or in an apex, with every
\* value of the four api level attributes (nil when unset).
SdkLibraryXmlDeclarations ==
  LET ApiLevelAttributes == {Unset, "30", "S", "Tiramisu", "34", "current", "bogus"}
  IN [Lib_name : {"foo"},
      ApexVariationName : {None, "com.android.foo"},
      On_bootclasspath_since : ApiLevelAttributes,
      On_bootclasspath_before : ApiLevelAttributes,
      Min_device_sdk : ApiLevelAttributes,
      Max_device_sdk : ApiLevelAttributes,
      Sdk_library_min_api_level : {"30", "33", "34", "current"}]

\* The mutated rule compares with <= and so rejects the floor itself.
validateAtLeastTAttributes_RejectsT(module) ==
  LET t == ApiLevelFromUser("Tiramisu")
      attrAtLeastT(attr, attrName) ==
        IF attr # Unset /\ ApiLevelFromUser(attr).err = None
             /\ t.number >= ApiLevelFromUser(attr).number
          THEN {[property |-> attrName, msg |-> "Attribute value needs to be at least T"]}
          ELSE {}
  IN attrAtLeastT(module.Min_device_sdk, "min_device_sdk")
       \cup attrAtLeastT(module.Max_device_sdk, "max_device_sdk")
       \cup attrAtLeastT(module.On_bootclasspath_before, "on_bootclasspath_before")
       \cup attrAtLeastT(module.On_bootclasspath_since, "on_bootclasspath_since")

\* validateAtLeastTAttributes and attrAtLeastT: the errors they report.
validateAtLeastTAttributes(module) ==
  LET t == ApiLevelFromUser("Tiramisu")
      attrAtLeastT(attr, attrName) ==
        IF attr # Unset /\ ApiLevelFromUser(attr).err = None
             /\ t.number > ApiLevelFromUser(attr).number
          THEN {[property |-> attrName, msg |-> "Attribute value needs to be at least T"]}
          ELSE {}
  IN attrAtLeastT(module.Min_device_sdk, "min_device_sdk")
       \cup attrAtLeastT(module.Max_device_sdk, "max_device_sdk")
       \cup attrAtLeastT(module.On_bootclasspath_before, "on_bootclasspath_before")
       \cup attrAtLeastT(module.On_bootclasspath_since, "on_bootclasspath_since")

\* The mutated check never fires.
validateMinAndMaxDeviceSdk_Skipped(module) == {}

validateMinAndMaxDeviceSdk(module) ==
  IF module.Min_device_sdk # Unset /\ module.Max_device_sdk # Unset
    THEN LET min == ApiLevelFromUser(module.Min_device_sdk)
             max == ApiLevelFromUser(module.Max_device_sdk)
         IN IF min.err = None /\ max.err = None /\ min.number > max.number
              THEN {[property |-> None, msg |-> "min_device_sdk can't be greater than max_device_sdk"]}
              ELSE {}
    ELSE {}

\* The mutated check looks at min_device_sdk only.
validateMinMaxDeviceSdkAndModuleMinSdk_MinOnly(module) ==
  LET moduleMinApi == ApiLevelFromUser(module.Sdk_library_min_api_level)
  IN IF module.Min_device_sdk # Unset
          /\ ApiLevelFromUser(module.Min_device_sdk).err = None
          /\ moduleMinApi.number > ApiLevelFromUser(module.Min_device_sdk).number
       THEN {[property |-> "min_device_sdk", msg |-> "Can't be less than module's min sdk (" \o moduleMinApi.text \o ")"]}
       ELSE {}

validateMinMaxDeviceSdkAndModuleMinSdk(module) ==
  LET moduleMinApi == ApiLevelFromUser(module.Sdk_library_min_api_level)
      check(attr, attrName) ==
        IF attr # Unset /\ ApiLevelFromUser(attr).err = None
             /\ moduleMinApi.number > ApiLevelFromUser(attr).number
          THEN {[property |-> attrName, msg |-> "Can't be less than module's min sdk (" \o moduleMinApi.text \o ")"]}
          ELSE {}
  IN check(module.Min_device_sdk, "min_device_sdk")
       \cup check(module.Max_device_sdk, "max_device_sdk")

\* The mutated check forgets that min_device_sdk lifts the requirement.
validateOnBootclasspathBeforeRequirements_IgnoreMinDeviceSdk(module) ==
  LET moduleMinApi == ApiLevelFromUser(module.Sdk_library_min_api_level)
      t == ApiLevelFromUser("Tiramisu")
  IN IF module.On_bootclasspath_before # Unset /\ moduleMinApi.number < t.number
       THEN {[property |-> "on_bootclasspath_before", msg |-> 
              "Using this property requires that the module's min_sdk_version or the shared library's min_device_sdk is at least T"]}
       ELSE {}

validateOnBootclasspathBeforeRequirements(module) ==
  LET moduleMinApi == ApiLevelFromUser(module.Sdk_library_min_api_level)
      t == ApiLevelFromUser("Tiramisu")
  IN IF module.On_bootclasspath_before # Unset /\ moduleMinApi.number < t.number
          /\ module.Min_device_sdk = Unset
       THEN {[property |-> "on_bootclasspath_before", msg |-> 
              "Using this property requires that the module's min_sdk_version or the shared library's min_device_sdk is at least T"]}
       ELSE {}

\* sdkLibraryXml.selfValidate: the errors of the four validations. None of
\* them stops the caller.
selfValidate(module) ==
  validateAtLeastTAttributes(module)
    \cup validateMinAndMaxDeviceSdk(module)
    \cup validateMinMaxDeviceSdkAndModuleMinSdk(module)
    \cup validateOnBootclasspathBeforeRequirements(module)

\* formattedOptionalSdkLevelAttribute and formattedOptionalAttribute: the
\* text of an api level attribute of the descriptor and the errors of
\* formatting it. The attributes of the blueprint have underscores where
\* those of the descriptor have dashes.
formattedOptionalSdkLevelAttribute(attrName, propertyName, value) ==
  IF value = Unset THEN [text |-> "", errors |-> {}]
  ELSE LET apiLevel == ApiLevelFromUser(value)
       IN IF apiLevel.err # None
            THEN [text |-> "", errors |-> {[property |-> propertyName, msg |-> apiLevel.err]}]
          ELSE IF apiLevel.isCurrent
            THEN [text |-> "",
                  errors |-> {[property |-> propertyName,
                               msg |-> "\"current\" is not an allowed value for this attribute"]}]
          ELSE [text |-> "        " \o attrName \o "=\\\"" \o apiLevel.text \o "\\\"\\n",
                errors |-> {}]

\* sdkLibraryXml.implPath and permissionsContents: the text of the
\* descriptor, from the <permissions> element on, and the errors of
\* formatting it. The library has no uses_libs dependencies.
permissionsContents(module) ==
  LET filePath == IF module.ApexVariationName # None
                    THEN "/apex/" \o module.ApexVariationName \o "/javalib/" \o module.Lib_name \o ".jar"
                    ELSE "/system/framework/" \o module.Lib_name \o ".jar"
      implicitFromAttr == formattedOptionalSdkLevelAttribute(
        "on-bootclasspath-since", "on_bootclasspath_since", module.On_bootclasspath_since)
      implicitUntilAttr == formattedOptionalSdkLevelAttribute(
        "on-bootclasspath-before", "on_bootclasspath_before", module.On_bootclasspath_before)
      minSdkAttr == formattedOptionalSdkLevelAttribute(
        "min-device-sdk", "min_device_sdk", module.Min_device_sdk)
      maxSdkAttr == formattedOptionalSdkLevelAttribute(
        "max-device-sdk", "max_device_sdk", module.Max_device_sdk)
      libraryTag == IF module.Min_device_sdk # Unset THEN "    <apex-library\\n"
                                                    ELSE "    <library\\n"
  IN [text |-> "<permissions>\\n" \o libraryTag
                 \o "        name=\\\"" \o module.Lib_name \o "\\\"\\n"
                 \o "        file=\\\"" \o filePath \o "\\\"\\n"
                 \o implicitFromAttr.text \o implicitUntilAttr.text
                 \o minSdkAttr.text \o maxSdkAttr.text
                 \o "    />\\n" \o "</permissions>\\n",
      errors |-> implicitFromAttr.errors \cup implicitUntilAttr.errors
                   \cup minSdkAttr.errors \cup maxSdkAttr.errors]

\* sdkLibraryXml.GenerateAndroidBuildActions: selfValidate, then the text
\* of the descriptor, then the rule that writes it.
XmlGenerateAndroidBuildActions(module) ==
  LET validation == selfValidate(module)
      xmlContent == permissionsContents(module)
      outputFilePath == module.Lib_name \o ".xml"
  IN [errors |-> validation \cup xmlContent.errors,
      xmlContent |-> xmlContent.text,
      outputFilePath |-> outputFilePath,
      rule |-> [name |-> "java_sdk_xml",
                command |-> "/bin/bash -c \"echo -e '" \o xmlContent.text \o "'\" > "
                              \o outputFilePath]]

InitXml ==
  /\ pc = "xml"
  /\ props \in SdkLibraryXmlDeclarations
  /\ config = [AllowMissingDependencies |-> FALSE, BuildFromTextStub |-> FALSE,
               ReleaseHiddenApiExportableStubs |-> FALSE, ApiLibraries |-> {}]
  /\ tree = [missing |-> {}, script |-> TRUE]
  /\ created = <<>>
  /\ errors = {}
  /\ missingDeps = {}
  /\ deps = <<>>
  /\ scopePaths = emptyRegistry
  /\ visits = <<>>
  /\ result = [xmlContent |-> None, outputFilePath |-> None, rule |-> None]

\* The build runs GenerateAndroidBuildActions of the sdkLibraryXml module.
RunXmlGenerateAndroidBuildActions ==
  /\ pc = "xml"
  /\ LET r == XmlGenerateAndroidBuildActions(props)
     IN /\ errors' = r.errors
        /\ result' = [xmlContent |-> r.xmlContent, outputFilePath |-> r.outputFilePath,
                      rule |-> r.rule.command]
  /\ pc' = "xmlDone"
  /\ UNCHANGED <<props, config, tree, created, missingDeps, deps, scopePaths, visits>>

SpecXml == InitXml /\ [][RunXmlGenerateAndroidBuildActions]_vars

\* Is an attribute set to a value that parses as an api level?
Parses(value) == value # Unset /\ ApiLevelFromUser(value).err = None

\* The number of the api level an attribute that parses stands for.
Level(value) == ApiLevelFromUser(value).number

\* The input of C11: both attributes parse and min_device_sdk is the greater.
MinAboveMax ==
  /\ Parses(props.Min_device_sdk)
  /\ Parses(props.Max_device_sdk)
  /\ Level(props.Min_device_sdk) > Level(props.Max_device_sdk)

MinAboveMaxError ==
  [property |-> None, msg |-> "min_device_sdk can't be greater than max_device_sdk"]

\* C11 as stated: for an input whose min_device_sdk is greater than its
\* max_device_sdk, GenerateAndroidBuildActions of the xml module reports the
\* error and produces no descriptor text and no build rule afterwards.
C11_NothingEmittedAfterError ==
  (pc = "xmlDone" /\ MinAboveMax) =>
    /\ MinAboveMaxError \in errors
    /\ result.xmlContent = None
    /\ result.rule = None

\* C11: for an input whose min_device_sdk is greater than its
\* max_device_sdk the error is reported, so the build fails, but the same
\* call still formats the descriptor text and declares the rule that writes
\* it; a call that reports no error has min_device_sdk <= max_device_sdk
\* whenever both are set, and its text carries both values.
C11_ErrorReportedTextStillFormatted ==
  pc = "xmlDone" =>
    /\ MinAboveMax =>
         /\ MinAboveMaxError \in errors
         /\ result.xmlContent # None
         /\ result.rule = "/bin/bash -c \"echo -e '" \o result.xmlContent \o "'\" > foo.xml"
    /\ MinAboveMaxError \in errors => MinAboveMax
    /\ (errors = {} /\ props.Min_device_sdk # Unset /\ props.Max_device_sdk # Unset) =>
         /\ Level(props.Min_device_sdk) <= Level(props.Max_device_sdk)
         /\ \E i \in 1..Len(result.xmlContent) :
              SubSeq(result.xmlContent, i, i + 16) = "min-device-sdk=\\\""

\* min_device_sdk 34 above max_device_sdk Tiramisu: the error is reported
\* and the text of the descriptor is there all the same.
C11_Witness ==
  /\ pc = "xmlDone"
  /\ props.Min_device_sdk = "34"
  /\ props.Max_device_sdk = "Tiramisu"
  /\ MinAboveMaxError \in errors
  /\ result.xmlContent # None

\* The four attributes the floor applies to, by the name of the property.
AttributeValue ==
  [min_device_sdk |-> props.Min_device_sdk,
   max_device_sdk |-> props.Max_device_sdk,
   on_bootclasspath_before |-> props.On_bootclasspath_before,
   on_bootclasspath_since |-> props.On_bootclasspath_since]

\* C12: for each of the four attributes, the "at least T" property error is
\* reported on the attribute if and only if the attribute is set to an api
\* level that parses and is below Tiramisu (33); an unset attribute, one that
\* does not parse and one at or above the floor are not rejected by the rule.
C12_BelowFloorRejected ==
  pc = "xmlDone" =>
    \A name \in DOMAIN AttributeValue :
      ([property |-> name, msg |-> "Attribute value needs to be at least T"] \in errors)
        <=> (Parses(AttributeValue[name]) /\ AttributeValue[name] \in {"30", "S"})

\* on_bootclasspath_since is S, below the floor, and is rejected;
\* max_device_sdk is Tiramisu, the floor itself, and is not.
C12_Witness ==
  /\ pc = "xmlDone"
  /\ props.On_bootclasspath_since = "S"
  /\ props.Max_device_sdk = "Tiramisu"
  /\ [property |-> "on_bootclasspath_since", msg |-> "Attribute value needs to be at least T"]
       \in errors
  /\ \A e \in errors : e.property # "max_device_sdk"

\* The error of the rule of C13 for the minimum api level of the library.
BelowModuleMinMessage ==
  "Can't be less than module's min sdk ("
    \o ApiLevelFromUser(props.Sdk_library_min_api_level).text \o ")"

\* C13: the "less than module's min sdk" property error is reported on
\* min_device_sdk (on max_device_sdk) if and only if that attribute is set,
\* parses and is lower than Sdk_library_min_api_level, whatever the other
\* attribute is.
C13_BelowModuleMinRejected ==
  pc = "xmlDone" =>
    \A name \in {"min_device_sdk", "max_device_sdk"} :
      ([property |-> name, msg |-> BelowModuleMinMessage] \in errors)
        <=> /\ Parses(AttributeValue[name])
            /\ Level(AttributeValue[name]) < Level(props.Sdk_library_min_api_level)

\* The library supports api level 34 and up: max_device_sdk Tiramisu is
\* rejected while min_device_sdk 34 is not.
C13_Witness ==
  /\ pc = "xmlDone"
  /\ props.Sdk_library_min_api_level = "34"
  /\ props.Min_device_sdk = "34"
  /\ props.Max_device_sdk = "Tiramisu"
  /\ [property |-> "max_device_sdk", msg |-> BelowModuleMinMessage] \in errors
  /\ [property |-> "min_device_sdk", msg |-> BelowModuleMinMessage] \notin errors

OnBootclasspathBeforeError ==
  [property |-> "on_bootclasspath_before",
   msg |-> "Using this property requires that the module's min_sdk_version or the shared library's min_device_sdk is at least T"]

\* C14: the requirement error is reported on on_bootclasspath_before if and
\* only if on_bootclasspath_before is set, the minimum api level of the
\* library is below Tiramisu and min_device_sdk is not set.
C14_BeforeRequiresMinDeviceSdk ==
  pc = "xmlDone" =>
    (OnBootclasspathBeforeError \in errors
       <=> /\ props.On_bootclasspath_before # Unset
           /\ props.Sdk_library_min_api_level = "30"
           /\ props.Min_device_sdk = Unset)

\* A library that supports api level 30 sets on_bootclasspath_before and no
\* min_device_sdk.
C14_Witness ==
  /\ pc = "xmlDone"
  /\ props.On_bootclasspath_before = "Tiramisu"
  /\ props.Sdk_library_min_api_level = "30"
  /\ props.Min_device_sdk = Unset
  /\ OnBootclasspathBeforeError \in errors

----------------------------------------------------------------------------
(* The jars a java_sdk_library gives a consumer: sdkJars,
   selectHeaderJarsForSdkVersion and PrebuiltJars. *)

\* android.SdkSpec: the sdk_version of a consumer. An unset sdk_version is
\* the private kind at the future api level; a numbered version is not a
\* preview.
SdkSpecs ==
  {[Kind |-> "private", ApiLevel |-> "current", Raw |-> ""],
   [Kind |-> SdkPublic, ApiLevel |-> "current", Raw |-> "current"],
   [Kind |-> SdkSystem, ApiLevel |-> "current", Raw |-> "system_current"],
   [Kind |-> SdkTest, ApiLevel |-> "current", Raw |-> "test_current"],
   [Kind |-> SdkModule, ApiLevel |-> "current", Raw |-> "module_current"],
   [Kind |-> SdkSystemServer, ApiLevel |-> "current", Raw |-> "system_server_current"],
   [Kind |-> SdkPublic, ApiLevel |-> "30", Raw |-> "30"],
   [Kind |-> SdkSystem, ApiLevel |-> "30", Raw |-> "system_30"],
   [Kind |-> SdkModule, ApiLevel |-> "30", Raw |-> "module_30"]}

\* PrebuiltJars. `prebuilts` is the set of jars that exist under
\* prebuilts/sdk. SdkSpec.UsePrebuilt holds of every numbered version and,
\* in a build that does not always use the prebuilt sdks, of no other.
PrebuiltJars(cfg, prebuilts, baseName, s) ==
  LET usePrebuilt == s.ApiLevel # "current"
      ver == IF usePrebuilt THEN s.ApiLevel ELSE "current"
      kind == IF usePrebuilt THEN s.Kind ELSE SdkSystem
      jar == "prebuilts/sdk/" \o ver \o "/" \o kind \o "/" \o baseName \o ".jar"
  IN IF jar \notin prebuilts
       THEN IF cfg.AllowMissingDependencies
              THEN [paths |-> jar, errors |-> {}]
              ELSE [paths |-> None,
                    errors |-> {[property |-> "sdk_library", msg |-> "invalid sdk version",
                                 raw |-> s.Raw, jar |-> jar]}]
       ELSE [paths |-> jar, errors |-> {}]

\* A selection that asks the registry whatever the version is.
selectHeaderJarsForSdkVersion_AlwaysRegistry(registry, module, cfg, prebuilts, sdkVersion) ==
  LET selected == selectScopePaths(registry, module, sdkVersion.Kind)
  IN IF selected.paths = None
       THEN [paths |-> None, errors |-> selected.errors]
       ELSE [paths |-> registry[selected.paths].stubsHeaderPath, errors |-> {}]

\* commonToSdkLibraryAndImport.selectHeaderJarsForSdkVersion
selectHeaderJarsForSdkVersion(registry, module, cfg, prebuilts, sdkVersion) ==
  IF sdkVersion.ApiLevel # "current"
    THEN PrebuiltJars(cfg, prebuilts, module.Name, sdkVersion)
    ELSE LET selected == selectScopePaths(registry, module, sdkVersion.Kind)
         IN IF selected.paths = None
              THEN [paths |-> None, errors |-> selected.errors]
              ELSE [paths |-> registry[selected.paths].stubsHeaderPath, errors |-> {}]

\* SdkLibrary.sdkJars. `sameApex` is withinSameApexesAs(ctx, module).
sdkJars(registry, module, cfg, prebuilts, requested, sameApex, headerJars) ==
  LET sdkVersion == IF module.Default_to_stubs /\ requested.Kind = "private"
                      THEN [Kind |-> SdkModule, ApiLevel |-> "current", Raw |-> "module_current"]
                      ELSE requested
  IN IF /\ requiresRuntimeImplementationLibrary(module)
        /\ (sdkVersion.Kind = "private" \/ sameApex)
       THEN [paths |-> IF headerJars THEN HeaderJars(module) ELSE ImplementationJars(module),
             errors |-> {}]
       ELSE selectHeaderJarsForSdkVersion(registry, module, cfg, prebuilts, sdkVersion)

\* A library foo with srcs that sets at most MaxNonDefault of the scope
\* overrides, api_only and default_to_stubs, in a tree that has every api
\* file and either every jar of prebuilts/sdk or all but those of version 30
\* or none.
InitSdkJars ==
  /\ pc = "declared"
  /\ props \in {[f \in DOMAIN d \cup {"Default_to_stubs"} |->
                   IF f = "Default_to_stubs" THEN b ELSE d[f]] :
                  d \in {d \in SdkLibraryDeclarations :
                           /\ d.Name = "foo" /\ d.ModuleEnabled /\ d.Srcs /\ d.HasStandardLibs
                           /\ d.Shared_library = Unset /\ ~d.Unsafe_ignore_missing_latest_api
                           /\ d.Naming_scheme = "default"},
                  b \in BOOLEAN}
  /\ DeclarationDistance(props) + Count(props.Default_to_stubs) <= MaxNonDefault
  /\ config \in {c \in Configs : /\ ~c.BuildFromTextStub
                                 /\ ~c.ReleaseHiddenApiExportableStubs
                                 /\ c.ApiLibraries = {}}
  /\ tree \in [missing : {{}}, script : {TRUE},
               prebuilts : {{"prebuilts/sdk/30/public/foo.jar",
                             "prebuilts/sdk/30/system/foo.jar",
                             "prebuilts/sdk/30/module-lib/foo.jar",
                             "prebuilts/sdk/current/system/foo.jar"},
                            {"prebuilts/sdk/current/system/foo.jar"}, {}}]
  /\ created = <<>>
  /\ errors = {}
  /\ missingDeps = {}
  /\ deps = <<>>
  /\ scopePaths = emptyRegistry
  /\ visits = <<>>
  /\ result = [sdkVersion |-> [Kind |-> None, ApiLevel |-> None, Raw |-> None],
               sameApex |-> FALSE, headerJars |-> FALSE, paths |-> None, errors |-> {}]

\* A consumer asks the library for its jars: SdkHeaderJars or
\* SdkImplementationJars.
RequestSdkJars ==
  /\ pc = "generated"
  /\ \E sdkVersion \in SdkSpecs, sameApex \in BOOLEAN, headerJars \in BOOLEAN :
       LET r == sdkJars(scopePaths, props, config, tree.prebuilts, sdkVersion, sameApex,
                        headerJars)
       IN result' = [sdkVersion |-> sdkVersion, sameApex |-> sameApex,
                     headerJars |-> headerJars, paths |-> r.paths, errors |-> r.errors]
  /\ UNCHANGED <<pc, props, config, tree, created, errors, missingDeps, deps, scopePaths, visits>>

NextSdkJars ==
  \/ RunDefaultableHook
  \/ RunComponentDepsMutator
  \/ RunGenerateAndroidBuildActions
  \/ RequestSdkJars

SpecSdkJars == InitSdkJars /\ [][NextSdkJars]_vars

\* A consumer outside the apex of the library has asked for a numbered
\* version, so that the request went to selectHeaderJarsForSdkVersion.
NumberedRequest ==
  /\ pc = "generated"
  /\ result.sdkVersion.Kind # None
  /\ result.sdkVersion.ApiLevel # "current"
  /\ ~result.sameApex

\* The jar of the requested version and kind, and the jar of the default
\* pair (the system kind at the current version).
RequestedJar ==
  "prebuilts/sdk/" \o result.sdkVersion.ApiLevel \o "/" \o result.sdkVersion.Kind \o "/foo.jar"

DefaultJar == "prebuilts/sdk/current/system/foo.jar"

\* C15 as stated (with the directory the code uses, prebuilts/sdk): a
\* numbered request resolves to the jar of the version and kind; if that jar
\* is absent the result is the jar of the default pair when missing
\* dependencies are allowed, and otherwise an error and no path.
C15_FallsBackToDefaultPair ==
  NumberedRequest =>
    IF RequestedJar \in tree.prebuilts
      THEN result.paths = RequestedJar /\ result.errors = {}
      ELSE IF config.AllowMissingDependencies
             THEN result.paths = DefaultJar
             ELSE result.paths = None /\ result.errors # {}

\* C15: a numbered request never consults the registry and resolves to
\* prebuilts/sdk/<version>/<kind>/<baseName>.jar; if that jar is absent, the
\* result is still that same path, without an error, when missing
\* dependencies are allowed, and otherwise a property error on sdk_library
\* is reported and no path is returned. The default pair is not used.
C15_NumberedVersionUsesPrebuiltJar ==
  NumberedRequest =>
    IF RequestedJar \in tree.prebuilts \/ config.AllowMissingDependencies
      THEN result.paths = RequestedJar /\ result.errors = {}
      ELSE /\ result.paths = None
           /\ result.errors = {[property |-> "sdk_library", msg |-> "invalid sdk version",
                                raw |-> result.sdkVersion.Raw, jar |-> RequestedJar]}

\* system_30 was requested of a library whose registry has the system scope,
\* the jar is absent and missing dependencies are allowed: the result is the
\* path of the absent jar.
C15_Witness ==
  /\ NumberedRequest
  /\ result.sdkVersion.Raw = "system_30"
  /\ apiScopeSystem \in DOMAIN scopePaths
  /\ RequestedJar \notin tree.prebuilts
  /\ DefaultJar \in tree.prebuilts
  /\ config.AllowMissingDependencies
  /\ result.paths = RequestedJar

\* Does scope `wide` extend scope `narrow`, in one step or more?
RECURSIVE Extends(_, _)
Extends(wide, narrow) ==
  /\ scopeExtends(wide) # None
  /\ (scopeExtends(wide) = narrow \/ Extends(scopeExtends(wide), narrow))

\* The scopes the library provides that no other scope it provides extends.
WidestScopes ==
  {scope \in DOMAIN scopePaths : \A other \in DOMAIN scopePaths : ~Extends(other, scope)}

\* C17: when default_to_stubs is true and the consumer sets no sdk_version,
\* a consumer outside the apex of the library is given the stubs of a widest
\* scope the library provides, and a consumer in the apex of the library is
\* given the jars of the implementation library.
C17_DefaultToStubsGivesWidest ==
  (/\ pc = "generated"
   /\ result.sdkVersion.Kind # None
   /\ result.sdkVersion.Kind = "private"
   /\ props.Default_to_stubs) =>
    IF result.sameApex
      THEN result.paths = (IF result.headerJars THEN HeaderJars(props)
                                                ELSE ImplementationJars(props))
      ELSE \E scope \in WidestScopes : result.paths = scopePaths[scope].stubsHeaderPath

----------------------------------------------------------------------------
(* Requests one after another. *)

\* C16: scope selection is a read-only traversal. A request adds no record
\* to the registry, removes none and changes none, a failed lookup on the
\* way included, so that a request repeated after any other requests
\* returns what it returned before, and every result is the one a first
\* request on the registry would get.
C16_SelectionIsReadOnly ==
  [][(pc = "generated" /\ pc' = "generated") =>
       /\ scopePaths' = scopePaths
       /\ result'.paths = selectScopePaths(scopePaths, props, result'.kind).paths
       /\ result'.errors = selectScopePaths(scopePaths, props, result'.kind).errors
       /\ result'.kind = result.kind => result' = result]_vars

\* The test kind was requested of a library without the test scope: the
\* lookup of test failed, the result is another scope and the registry
\* still has no record for test.
C16_Witness ==
  /\ pc = "generated"
  /\ props.Kind = "java_sdk_library"
  /\ result.kind = SdkTest
  /\ result.paths = apiScopeSystem
  /\ apiScopeTest \notin DOMAIN scopePaths

----------------------------------------------------------------------------
(* aconfig_declarations: one module per package. *)

\* A check that reports the error once for every module of a package that
\* has more than one.
allAconfigDeclarations_ErrorPerModule(modules) ==
  LET offending == {name \in DOMAIN modules :
                      \E other \in DOMAIN modules \ {name} : modules[other] = modules[name]}
      order == CHOOSE seq \in [1..Cardinality(offending) -> offending] :
                 \A i, j \in DOMAIN seq : i # j => seq[i] # seq[j]
  IN [errors |-> [i \in DOMAIN order |->
                    "Only one aconfig_declarations allowed for each package."],
      accepted |-> IF offending = {} THEN DOMAIN modules ELSE {}]

\* The all_aconfig_declarations singleton over the aconfig_declarations
\* modules of the build (module name -> package): it counts the modules of
\* each package and fails the build, once, if a package has more than one.
allAconfigDeclarations(modules) ==
  LET packages == [pkg \in {modules[name] : name \in DOMAIN modules} |->
                     Cardinality({name \in DOMAIN modules : modules[name] = pkg})]
      numOffendingPkg == Cardinality({pkg \in DOMAIN packages : packages[pkg] > 1})
  IN IF numOffendingPkg > 0
       THEN [errors |-> <<"Only one aconfig_declarations allowed for each package.">>,
             accepted |-> {}]
       ELSE [errors |-> <<>>, accepted |-> DOMAIN modules]

\* Any set of aconfig_declarations modules with distinct names, each with
\* one of three packages.
InitAconfig ==
  /\ pc = "aconfig"
  /\ props \in UNION {[names -> {"com.example.package", "com.example.other", "com.example.third"}] :
                        names \in SUBSET {"module_name.foo", "module_name.bar",
                                          "module_name.baz", "module_name.qux"}}
  /\ config = [AllowMissingDependencies |-> FALSE, BuildFromTextStub |-> FALSE,
               ReleaseHiddenApiExportableStubs |-> FALSE, ApiLibraries |-> {}]
  /\ tree = [missing |-> {}, script |-> TRUE]
  /\ created = <<>>
  /\ errors = {}
  /\ missingDeps = {}
  /\ deps = <<>>
  /\ scopePaths = emptyRegistry
  /\ visits = <<>>
  /\ result = [errors |-> <<>>, accepted |-> {}]

\* The build runs the singleton.
RunAllAconfigDeclarations ==
  /\ pc = "aconfig"
  /\ result' = allAconfigDeclarations(props)
  /\ pc' = "aconfigDone"
  /\ UNCHANGED <<props, config, tree, created, errors, missingDeps, deps, scopePaths, visits>>

SpecAconfig == InitAconfig /\ [][RunAllAconfigDeclarations]_vars

\* Do two distinct modules declare the same package?
SharedPackage ==
  \E a, b \in DOMAIN props : a # b /\ props[a] = props[b]

\* C18: if two distinct aconfig_declarations modules declare the same
\* package the build fails with exactly one error, "Only one
\* aconfig_declarations allowed for each package.", however many modules
\* and packages are involved; otherwise there is no error; and the modules
\* accepted never include two of the same package.
C18_OneDeclarationPerPackage ==
  pc = "aconfigDone" =>
    /\ SharedPackage =>
         result.errors = <<"Only one aconfig_declarations allowed for each package.">>
    /\ ~SharedPackage => result.errors = <<>> /\ result.accepted = DOMAIN props
    /\ \A a, b \in result.accepted : a # b => props[a] # props[b]

\* The two modules of the test, module_name.foo and module_name.bar, both of
\* com.example.package: one error.
C18_Witness ==
  /\ pc = "aconfigDone"
  /\ DOMAIN props = {"module_name.foo", "module_name.bar"}
  /\ props["module_name.foo"] = "com.example.package"
  /\ props["module_name.bar"] = "com.example.package"
  /\ Len(result.errors) = 1

----------------------------------------------------------------------------
(* The stubs extractors and the release flag. *)

\* The edge the step visits, when the step is a visit of a stubs library
\* through the given tag.
VisitsStubs(tag) ==
  /\ Len(visits') = Len(visits) + 1
  /\ visits'[Len(visits')].Tag = tag
  /\ Provides(visits'[Len(visits')].Name, tag)

\* The record of the visited scope before the visit (empty if the scope had
\* none) and after it.
Before ==
  LET scope == visits'[Len(visits')].Scope
  IN getScopePathsCreateIfNeeded(scopePaths, scope)[scope]

After == scopePaths'[visits'[Len(visits')].Scope]

\* C19 as stated: a visit of an everything stubs edge writes stubsImplPath
\* and stubsDexJarPath when ReleaseHiddenApiExportableStubs is off and leaves
\* both unchanged when it is on; a visit of an exportable stubs edge writes
\* exportableStubsDexJarPath whatever the flag.
C19_FlagGatesImplAndDexJar ==
  [][/\ VisitsStubs("stubs-everything") =>
          \A field \in {"stubsImplPath", "stubsDexJarPath"} :
            IF config.ReleaseHiddenApiExportableStubs
              THEN After[field] = Before[field]
              ELSE FromModule(After[field], visits'[Len(visits')].Name)
     /\ VisitsStubs("stubs-exportable") =>
          FromModule(After.exportableStubsDexJarPath, visits'[Len(visits')].Name)]_vars

\* C19: a visit of an everything stubs edge writes stubsHeaderPath and
\* stubsDexJarPath whatever ReleaseHiddenApiExportableStubs is, and writes
\* stubsImplPath only when the flag is off, leaving it unchanged when it is
\* on; a visit of an exportable stubs edge writes exportableStubsDexJarPath
\* whatever the flag is, and writes stubsImplPath only when the flag is on.
\* Neither touches the dex jar field of the other.
C19_FlagGatesImplOnly ==
  [][/\ VisitsStubs("stubs-everything") =>
          /\ FromModule(After.stubsHeaderPath, visits'[Len(visits')].Name)
          /\ FromModule(After.stubsDexJarPath, visits'[Len(visits')].Name)
          /\ IF config.ReleaseHiddenApiExportableStubs
               THEN After.stubsImplPath = Before.stubsImplPath
               ELSE FromModule(After.stubsImplPath, visits'[Len(visits')].Name)
          /\ After.exportableStubsDexJarPath = Before.exportableStubsDexJarPath
     /\ VisitsStubs("stubs-exportable") =>
          /\ FromModule(After.exportableStubsDexJarPath, visits'[Len(visits')].Name)
          /\ IF config.ReleaseHiddenApiExportableStubs
               THEN FromModule(After.stubsImplPath, visits'[Len(visits')].Name)
               ELSE After.stubsImplPath = Before.stubsImplPath
          /\ After.stubsDexJarPath = Before.stubsDexJarPath
          /\ After.stubsHeaderPath = Before.stubsHeaderPath]_vars

\* With the flag on, the everything stubs of public were visited after the
\* exportable stubs: the dex jar is that of the everything stubs and the
\* implementation jar still that of the exportable stubs.
C19_Witness ==
  /\ pc = "extracting"
  /\ config.ReleaseHiddenApiExportableStubs
  /\ visits = <<Edge("stubs-exportable", "public", "lib2"),
                Edge("stubs-everything", "public", "lib1")>>
  /\ FromModule(scopePaths["public"].stubsDexJarPath, "lib1")
  /\ FromModule(scopePaths["public"].stubsImplPath, "lib2")

----------------------------------------------------------------------------
(* The list of the sdk libraries of the build, javaSdkLibraries, which the
   hooks of all libraries append to under javaSdkLibrariesLock. *)

\* Any set of modules whose hooks run side by side: the libraries foo and
\* bar, api_only or not, and the prebuilts of foo and baz. The base module
\* name of a prebuilt is the name of its source.
InitRegistry ==
  /\ LET library(name) ==
           {[Kind |-> "java_sdk_library", Name |-> name, Api_only |-> b] : b \in BOOLEAN}
         import(name) ==
           {[Kind |-> "java_sdk_library_import", Name |-> name, Api_only |-> FALSE]}
         modules == [foo |-> library("foo"), bar |-> library("bar"),
                     prebuilt_foo |-> import("foo"), prebuilt_baz |-> import("baz")]
     IN props \in UNION {{f \in [ids -> UNION {modules[id] : id \in ids}] :
                            \A id \in ids : f[id] \in modules[id]} :
                         ids \in SUBSET (DOMAIN modules) \ {{}}}
  /\ pc = [id \in DOMAIN props \cup {"makevars"} |-> "declared"]
  /\ config = [AllowMissingDependencies |-> FALSE, BuildFromTextStub |-> FALSE,
               ReleaseHiddenApiExportableStubs |-> FALSE, ApiLibraries |-> {}]
  /\ tree = [missing |-> {}, script |-> TRUE]
  /\ created = <<>>
  /\ errors = {}
  /\ missingDeps = {}
  /\ deps = <<>>
  /\ scopePaths = emptyRegistry
  /\ visits = <<>>
  /\ result = [javaSdkLibraries |-> <<>>, lock |-> None,
               read |-> [id \in DOMAIN props |-> <<>>], exported |-> <<>>]

\* A lock that does not exclude. The hook of an import always reaches the
\* append, that of a library only if the library has an implementation.
LockJavaSdkLibraries_NoExclusion(id) ==
  /\ pc[id] = "declared"
  /\ \/ props[id].Kind = "java_sdk_library_import"
     \/ requiresRuntimeImplementationLibrary(props[id])
  /\ pc' = [pc EXCEPT ![id] = "locked"]
  /\ result' = [result EXCEPT !.lock = id, !.read[id] = result.javaSdkLibraries]
  /\ UNCHANGED <<props, config, tree, created, errors, missingDeps, deps, scopePaths, visits>>

\* The hook of a module has created the components of the module and takes
\* javaSdkLibrariesLock, which waits until no other hook holds it; append
\* then reads the list.
LockJavaSdkLibraries(id) ==
  /\ pc[id] = "declared"
  /\ \/ props[id].Kind = "java_sdk_library_import"
     \/ requiresRuntimeImplementationLibrary(props[id])
  /\ result.lock = None
  /\ pc' = [pc EXCEPT ![id] = "locked"]
  /\ result' = [result EXCEPT !.lock = id, !.read[id] = result.javaSdkLibraries]
  /\ UNCHANGED <<props, config, tree, created, errors, missingDeps, deps, scopePaths, visits>>

\* append writes the list it read with the base module name added, and the
\* deferred Unlock runs as the hook returns.
AppendJavaSdkLibraries(id) ==
  /\ pc[id] = "locked"
  /\ pc' = [pc EXCEPT ![id] = "done"]
  /\ result' = [result EXCEPT !.javaSdkLibraries = Append(result.read[id], props[id].Name),
                              !.lock = None]
  /\ UNCHANGED <<props, config, tree, created, errors, missingDeps, deps, scopePaths, visits>>

\* The hook of an api_only library returns without touching the list.
ReturnWithoutRecording(id) ==
  /\ pc[id] = "declared"
  /\ props[id].Kind = "java_sdk_library"
  /\ ~requiresRuntimeImplementationLibrary(props[id])
  /\ pc' = [pc EXCEPT ![id] = "done"]
  /\ UNCHANGED <<props, config, tree, created, errors, missingDeps, deps, scopePaths, visits,
                 result>>

\* After every hook has returned, the make vars provider sorts the list in
\* place and exports it as JAVA_SDK_LIBRARIES.
ExportJavaSdkLibraries ==
  /\ pc["makevars"] = "declared"
  /\ \A id \in DOMAIN props : pc[id] = "done"
  /\ LET only(name) == SelectSeq(result.javaSdkLibraries, LAMBDA x : x = name)
         sorted == only("bar") \o only("baz") \o only("foo")
     IN result' = [result EXCEPT !.javaSdkLibraries = sorted, !.exported = sorted]
  /\ pc' = [pc EXCEPT !["makevars"] = "done"]
  /\ UNCHANGED <<props, config, tree, created, errors, missingDeps, deps, scopePaths, visits>>

NextRegistry ==
  \/ \E id \in DOMAIN props : LockJavaSdkLibraries(id)
  \/ \E id \in DOMAIN props : AppendJavaSdkLibraries(id)
  \/ \E id \in DOMAIN props : ReturnWithoutRecording(id)
  \/ ExportJavaSdkLibraries

SpecRegistry == InitRegistry /\ [][NextRegistry]_vars

\* How many times a name is in the list.
Occurrences(name) ==
  Cardinality({i \in DOMAIN result.javaSdkLibraries : result.javaSdkLibraries[i] = name})

\* The modules whose hook has appended.
Recorded ==
  {id \in DOMAIN props : /\ pc[id] = "done"
                         /\ (props[id].Kind = "java_sdk_library_import" \/ ~props[id].Api_only)}

AllPassesFinished == \A id \in DOMAIN props : pc[id] = "done"

----------------------------------------------------------------------------
(* The order in which the modules of the scopes are created. *)

\* The hook of the library has just run: the modules it created are not
\* changed by any later step.
JustHooked == IsLibrary /\ pc = "hooked"

\* The scopes of the created modules, in creation order, without repetition of
\* a scope that was just seen.
RECURSIVE ScopeBlocks(_)
ScopeBlocks(modules) ==
  IF modules = <<>> THEN <<>>
  ELSE LET rest == ScopeBlocks(Tail(modules))
           scope == Head(modules).Scope
       IN IF scope = None \/ (rest # <<>> /\ Head(rest) = scope) THEN rest
          ELSE <<scope>> \o rest

\* C21: getGeneratedApiScopes returns the enabled scopes with no scope before
\* the scope it extends, and CreateInternalModules creates the modules scope by
\* scope in that order: the modules of a scope form one block, the blocks
\* follow the returned list, and every module of the scope a scope extends has
\* been created before the first module of that scope.
C21_ParentsBeforeChildren ==
  JustHooked =>
    LET scopes == getGeneratedApiScopes(props).scopes
    IN /\ \A i, j \in DOMAIN scopes : scopeExtends(scopes[j]) = scopes[i] => i < j
       /\ created # <<>> => ScopeBlocks(created) = scopes
       /\ \A i, j \in DOMAIN created :
            (/\ created[i].Scope # None
             /\ created[j].Scope # None
             /\ scopeExtends(created[j].Scope) = created[i].Scope) => i < j

C21_Witness ==
  /\ JustHooked
  /\ \E i, j, k \in DOMAIN created :
       /\ created[i].Scope = apiScopeSystem
       /\ created[j].Scope = apiScopeTest
       /\ created[k].Scope = apiScopeModuleLib
       /\ i < j /\ j < k


----------------------------------------------------------------------------
(* The static library of the top level stubs. *)

\* The top level stubs modules that the hook created.
TopLevelStubs ==
  {m \in ScopeModules : m.Name = stubsLibraryModuleName(m.Scope, props.Name)}

FromText(m) == m.Static_libs = <<apiLibraryModuleName(m.Scope, props.Name)>>
FromSource(m) == m.Static_libs = <<sourceStubsLibraryModuleName(m.Scope, props.Name)>>

\* C22 as stated: the static library of the top level stubs of every enabled
\* scope is the from-text stubs if and only if the build is from text stubs
\* and the name of the library is a key of the api libraries of the
\* configuration; otherwise it is the from-source stubs.
C22_FromTextIffSwitchAndRegistry ==
  JustHooked =>
    \A m \in TopLevelStubs :
      /\ FromText(m) <=> (config.BuildFromTextStub /\ props.Name \in config.ApiLibraries)
      /\ FromText(m) \/ FromSource(m)

\* C22 amended: the static library is the from-text stubs if and only if the
\* build is from text stubs and either the name of the library is a key of the
\* api libraries of the configuration, or the scope is public and the library
\* is one of those with an alternative full api surface stub library;
\* otherwise it is the from-source stubs.
C22_FromTextIffSwitchAndContributes ==
  JustHooked =>
    \A m \in TopLevelStubs :
      /\ FromText(m) <=>
           /\ config.BuildFromTextStub
           /\ \/ props.Name \in config.ApiLibraries
              \/ m.Scope = apiScopePublic /\ alternativeFullApiSurfaceStubLib(props) # ""
      /\ FromText(m) \/ FromSource(m)

C22_Witness ==
  /\ JustHooked
  /\ config.BuildFromTextStub
  /\ props.Name \notin config.ApiLibraries
  /\ \E m, n \in TopLevelStubs :
       /\ m.Scope = apiScopePublic /\ FromText(m)
       /\ n.Scope = apiScopeSystem /\ FromSource(n)


----------------------------------------------------------------------------
(* The implementation library and the xml permissions file. *)

CreatedNames(modules) == {modules[i].Name : i \in DOMAIN modules}

----------------------------------------------------------------------------
(* The api contributions of the from-text stubs. *)

\* The from-text stubs modules that the hook created.
ApiLibraries == {m \in ScopeModules : m.Factory = "java_api_library"}

\* The scopes whose modules the hook created.
CreatedScopes == {m.Scope : m \in ScopeModules}

CreatedDownClosed ==
  \A scope \in CreatedScopes : scopeExtends(scope) = None \/ scopeExtends(scope) \in CreatedScopes

\* The api contribution of the stubs source of a scope of this library.
Contribution(scope) == props.Name \o ".stubs.source" \o moduleSuffix(scope) \o ".api.contribution"

\* list[from], list[from + 1], ... are the contributions of scope, of the
\* scope it extends, ..., up to public, and nothing of the chain follows.
RECURSIVE IsChainFrom(_, _, _)
IsChainFrom(list, from, scope) ==
  /\ from \in DOMAIN list
  /\ list[from] = Contribution(scope)
  /\ IF scopeExtends(scope) = None
       THEN \A i \in DOMAIN list : i > from => list[i] \notin {Contribution(x) : x \in Scopes}
       ELSE IsChainFrom(list, from + 1, scopeExtends(scope))

\* C24 as stated: the api contributions of every from-text stubs module start
\* with the contribution of its scope, followed by those of the scopes it
\* extends up to public, each once and nearest first, and when the created
\* scopes are closed under extends every contribution listed is the one of a
\* created scope of the library.
C24_ChainOfEnabledScopes ==
  JustHooked =>
    \A m \in ApiLibraries :
      /\ IsChainFrom(m.Api_contributions, 1, m.Scope)
      /\ CreatedDownClosed =>
           \A i \in DOMAIN m.Api_contributions :
             \E scope \in CreatedScopes : m.Api_contributions[i] = Contribution(scope)

\* C24 amended: the list is that chain, and for the public scope of a library
\* with an additional api contribution that contribution is appended after
\* the chain; when the created scopes are closed under extends every
\* contribution of the chain is the one of a created scope, while the
\* additional contribution is the one of another library.
C24_ChainThenAdditionalContribution ==
  JustHooked =>
    \A m \in ApiLibraries :
      LET list == m.Api_contributions
          additional == IF m.Scope = apiScopePublic
                          THEN apiLibraryAdditionalApiContribution(props) ELSE ""
          chain == IF additional = "" THEN list ELSE SubSeq(list, 1, Len(list) - 1)
      IN /\ IsChainFrom(list, 1, m.Scope)
         /\ additional # "" =>
              /\ list[Len(list)] = additional
              /\ additional \notin {Contribution(scope) : scope \in Scopes}
         /\ \A i, j \in DOMAIN list : list[i] = list[j] => i = j
         /\ CreatedDownClosed =>
              \A i \in DOMAIN chain : \E scope \in CreatedScopes : chain[i] = Contribution(scope)

C24_Witness ==
  /\ JustHooked
  /\ CreatedDownClosed
  /\ \E m, n \in ApiLibraries :
       /\ m.Scope = apiScopePublic
       /\ Len(m.Api_contributions) = 2
       /\ m.Api_contributions[2] = apiLibraryAdditionalApiContribution(props)
       /\ n.Scope = apiScopeTest
       /\ Len(n.Api_contributions) = 3


----------------------------------------------------------------------------
(* The shape of the scope lattice. *)

\* The scope reached from `scope` by following extends n times, None once the
\* chain has ended.
RECURSIVE ExtendsSteps(_, _)
ExtendsSteps(scope, n) ==
  IF n = 0 \/ scope = None THEN scope ELSE ExtendsSteps(scopeExtends(scope), n - 1)

\* The same along canAccess.
RECURSIVE CanAccessSteps(_, _)
CanAccessSteps(scope, n) ==
  IF n = 0 \/ scope = None THEN scope ELSE CanAccessSteps(scopeCanAccess(scope), n - 1)

\* No chain of extends is longer than the number of scopes.
ExtendsAcyclic == \A scope \in Scopes : ExtendsSteps(scope, Len(allApiScopes)) = None

\* Public extends nothing and every other scope reaches it.
RootedAtPublic ==
  /\ scopeExtends(apiScopePublic) = None
  /\ \A scope \in Scopes \ {apiScopePublic} :
       \E n \in 1..Len(allApiScopes) : ExtendsSteps(scope, n) = apiScopePublic

\* The scopes whose canAccess is not on their chain of extends.
AccessOffExtends ==
  {scope \in Scopes :
     /\ scopeCanAccess(scope) # None
     /\ \A n \in 1..Len(allApiScopes) : ExtendsSteps(scope, n) # scopeCanAccess(scope)}

\* C25 as stated: extends is acyclic and a forest rooted at public, and the
\* canAccess of every scope is reached from the scope by following extends,
\* whatever scopes the resolver returns for a library.
C25_CanAccessReachableByExtends ==
  pc = "resolved" =>
    /\ ExtendsAcyclic
    /\ RootedAtPublic
    /\ AccessOffExtends = {}

\* C25 amended: extends is acyclic and a forest rooted at public; canAccess is
\* acyclic too and leads every scope but public to public; the canAccess of
\* every scope but system-server is the scope it extends, while system-server
\* extends public and can access module-lib, which is not on its chain of
\* extends, so that a library may provide system-server without module-lib
\* and without an error of the resolver.
C25_CanAccessLeavesExtendsForSystemServer ==
  /\ ExtendsAcyclic
  /\ RootedAtPublic
  /\ \A scope \in Scopes : CanAccessSteps(scope, Len(allApiScopes)) = None
  /\ \A scope \in Scopes \ {apiScopePublic} :
       \E n \in 1..Len(allApiScopes) : CanAccessSteps(scope, n) = apiScopePublic
  /\ AccessOffExtends = {apiScopeSystemServer}
  /\ scopeCanAccess(apiScopeSystemServer) = apiScopeModuleLib
  /\ (pc = "resolved" /\ Returned = {apiScopePublic, apiScopeSystemServer}) => result.errors = {}

C25_Witness ==
  /\ pc = "resolved"
  /\ Returned = {apiScopePublic, apiScopeSystemServer}
  /\ scopeCanAccess(apiScopeSystemServer) \notin Returned
  /\ result.errors = {}


----------------------------------------------------------------------------
(* The writers of the fields of a scope's record. *)

\* A library on its way to generation differs from the plainest one in at
\* most this many properties and flags.
MaxOrderNonDefault == 2

\* The libraries within that bound, in a complete source tree.
InitVisitOrder ==
  /\ pc = "declared"
  /\ props \in {d \in SdkLibraryDeclarations : Distance(d) <= MaxOrderNonDefault}
  /\ config \in {c \in Configs : ConfigDistance(c) + Distance(props) <= MaxOrderNonDefault}
  /\ tree = [missing |-> {}, script |-> TRUE]
  /\ created = <<>>
  /\ errors = {}
  /\ missingDeps = {}
  /\ deps = <<>>
  /\ scopePaths = emptyRegistry
  /\ visits = <<>>
  /\ result = [kind |-> None, paths |-> None, errors |-> {}]

NextVisitOrder ==
  \/ RunDefaultableHook
  \/ RunComponentDepsMutator
  \/ RunGenerateAndroidBuildActions

SpecVisitOrder == InitVisitOrder /\ [][NextVisitOrder]_vars

\* A record none of whose fields has been assigned.
Unwritten == [field \in ScopePathsFields |-> "unwritten"]

\* The record of a scope after the edges of `edges` that belong to the scope
\* were visited in that order, starting from `start`.
RecordAfter(start, scope, edges) ==
  GenerateAndroidBuildActions(scope :> start, config,
                              SelectSeq(edges, LAMBDA e : e.Scope = scope),
                              created).registry[scope]

\* The declared edges of a scope whose extractor assigns a field.
Writers(scope, field) ==
  {i \in DOMAIN deps :
     /\ deps[i].Scope = scope
     /\ RecordAfter(Unwritten, scope, <<deps[i]>>)[field] # "unwritten"}

\* The declared edges of a scope, in every order.
EdgeOrders(scope) ==
  LET edges == SelectSeq(deps, LAMBDA e : e.Scope = scope)
  IN {[i \in DOMAIN edges |-> edges[p[i]]] : p \in Permutations(DOMAIN edges)}

LatestFields == {"latestApiPath", "latestRemovedApiPath"}

\* The scopes for which edges were declared.
GeneratedScopes == {deps[i].Scope : i \in DOMAIN deps} \ {None}

----------------------------------------------------------------------------
(* References between the library and the modules it created. *)

\* The position of the first "{" of a module reference, or one past its end.
RECURSIVE TagStart(_, _)
TagStart(src, i) ==
  IF i > Len(src) \/ SubSeq(src, i, i) = "{" THEN i ELSE TagStart(src, i + 1)

\* android.SrcIsModuleWithTag: the module named by ":name" or ":name{.tag}".
SrcModule(src) == SubSeq(src, 2, TagStart(src, 2) - 1)

\* The edges to the filegroups of the latest released api, which prebuilt_apis
\* creates, not the library.
ExternalTags == {latestApiModuleTag, latestRemovedApiModuleTag}

\* C27: once the hook has completed without an error and the component deps
\* mutator has run, every edge to a component (all but those to the latest
\* api filegroups) names a module the hook created, the edges cover the stubs,
\* exportable stubs and stubs source of exactly the scopes whose modules were
\* created, the implementation library and the xml file have an edge exactly
\* when they were created, and every static lib and every module reference in
\* the srcs of a created module names a created module.
C27_NoDanglingInternalReference ==
  (IsLibrary /\ pc = "deps") =>
    /\ \A i \in DOMAIN deps :
         deps[i].Tag \notin ExternalTags => deps[i].Name \in CreatedNames(created)
    /\ {deps[i].Scope : i \in DOMAIN deps} \ {None} = CreatedScopes
    /\ \A scope \in CreatedScopes :
         \A tag \in {everythingStubsTag, exportableStubsTag, stubsSourceAndApiTag} :
           \E i \in DOMAIN deps : deps[i].Scope = scope /\ deps[i].Tag = tag
    /\ (\E i \in DOMAIN deps : deps[i].Tag = implLibraryTag)
         <=> implLibraryModuleName(props) \in CreatedNames(created)
    /\ (\E i \in DOMAIN deps : deps[i].Tag = xmlPermissionsFileTag)
         <=> xmlPermissionsModuleName(props) \in CreatedNames(created)
    /\ \A i \in DOMAIN created :
         /\ \A k \in DOMAIN created[i].Static_libs :
              created[i].Static_libs[k] \in CreatedNames(created)
         /\ \A src \in created[i].Srcs : SrcModule(src) \in CreatedNames(created)

C27_Witness ==
  /\ IsLibrary
  /\ pc = "deps"
  /\ props.Shared_library = "false"
  /\ config.BuildFromTextStub
  /\ \E m \in TopLevelStubs : m.Scope = apiScopeSystem /\ FromText(m)
  /\ \E i \in DOMAIN created :
       created[i].Srcs = {":" \o props.Name \o ".stubs.source.system{.exportable}"}
  /\ \E i \in DOMAIN deps : deps[i].Tag = implLibraryTag
  /\ \A i \in DOMAIN deps : deps[i].Tag # xmlPermissionsFileTag


----------------------------------------------------------------------------
(* The scopes with a record after generation. *)

\* C28: after SdkLibrary.GenerateAndroidBuildActions the scopes that have a
\* record are the scopes getGeneratedApiScopes returns; a request of a consumer
\* then returns a record without error if and only if a scope on the chain
\* requested scope, its canAccess, ... is one of them, and the error of a
\* request that fails lists exactly them, in the order of allApiScopes.
C28_RecordsAreGeneratedScopes ==
  (IsLibrary /\ pc = "generated") =>
    LET generated == getGeneratedApiScopes(props).scopes
        enabled == {generated[i] : i \in DOMAIN generated}
        chain == AccessChain[RequestedScope]
    IN /\ DOMAIN scopePaths = enabled
       /\ result.kind # None =>
            /\ (result.paths # None /\ result.errors = {})
                 <=> \E i \in DOMAIN chain : chain[i] \in enabled
            /\ (result.paths = None) <=> result.errors # {}
            /\ \A e \in result.errors : e.available = generated

C28_Witness ==
  /\ IsLibrary
  /\ pc = "generated"
  /\ result.kind = SdkModule
  /\ result.paths = None
  /\ \E e \in result.errors : e.available = <<>> /\ e.requested = apiScopeModuleLib
  /\ getGeneratedApiScopes(props).scopes = <<>>
  /\ visits = <<>>


----------------------------------------------------------------------------
(* The link type of a stubs library, decided by its name. *)

\* strings.HasSuffix
HasSuffix(name, suffix) ==
  /\ Len(name) >= Len(suffix)
  /\ SubSeq(name, Len(name) - Len(suffix) + 1, Len(name)) = suffix

\* strings.TrimSuffix
TrimSuffix(name, suffix) ==
  IF HasSuffix(name, suffix) THEN SubSeq(name, 1, Len(name) - Len(suffix)) ELSE name

\* hasStubsLibrarySuffix
hasStubsLibrarySuffix(name, apiScope) ==
  \/ HasSuffix(name, stubsLibraryModuleNameSuffix(apiScope))
  \/ HasSuffix(name, exportableStubsLibraryModuleNameSuffix(apiScope))

\* moduleStubLinkType: (stub bool, ret sdkLinkType)
moduleStubLinkType(moduleName) ==
  LET name == TrimSuffix(moduleName, ".from-source")
  IN IF hasStubsLibrarySuffix(name, apiScopePublic)
       THEN IF name = "hwbinder.stubs" \/ name = "libcore_private.stubs"
              THEN [stub |-> FALSE, ret |-> "javaPlatform"]
              ELSE [stub |-> TRUE, ret |-> "javaSdk"]
     ELSE IF hasStubsLibrarySuffix(name, apiScopeSystem)
       THEN [stub |-> TRUE, ret |-> "javaSystem"]
     ELSE IF hasStubsLibrarySuffix(name, apiScopeModuleLib)
       THEN [stub |-> TRUE, ret |-> "javaModule"]
     ELSE IF hasStubsLibrarySuffix(name, apiScopeTest)
       THEN [stub |-> TRUE, ret |-> "javaSystem"]
     ELSE IF hasStubsLibrarySuffix(name, apiScopeSystemServer)
       THEN [stub |-> TRUE, ret |-> "javaSystemServer"]
     ELSE [stub |-> FALSE, ret |-> "javaPlatform"]

\* The stubs libraries of every scope of a library of each of these names,
\* as the naming functions of apiScope name them: the top level stubs, the
\* exportable stubs, their from-source libraries and the from-text library.
InitLinkType ==
  /\ pc = "named"
  /\ \E baseName \in {"foo", "android.test.base", "hwbinder", "libcore_private"},
        apiScope \in Scopes :
       \E name \in {stubsLibraryModuleName(apiScope, baseName),
                    exportableStubsLibraryModuleName(apiScope, baseName),
                    sourceStubsLibraryModuleName(apiScope, baseName),
                    exportableSourceStubsLibraryModuleName(apiScope, baseName),
                    apiLibraryModuleName(apiScope, baseName)} :
         props = [baseName |-> baseName, apiScope |-> apiScope, name |-> name]
  /\ config = [AllowMissingDependencies |-> FALSE, BuildFromTextStub |-> FALSE,
               ReleaseHiddenApiExportableStubs |-> FALSE, ApiLibraries |-> {}]
  /\ tree = [missing |-> {}, script |-> TRUE]
  /\ created = <<>>
  /\ errors = {}
  /\ missingDeps = {}
  /\ deps = <<>>
  /\ scopePaths = emptyRegistry
  /\ visits = <<>>
  /\ result = [stub |-> FALSE, ret |-> None]

\* moduleStubLinkType is called with the name of the module.
RunModuleStubLinkType ==
  /\ pc = "named"
  /\ result' = moduleStubLinkType(props.name)
  /\ pc' = "linked"
  /\ UNCHANGED <<props, config, tree, created, errors, missingDeps, deps, scopePaths, visits>>

SpecLinkType == InitLinkType /\ [][RunModuleStubLinkType]_vars

\* The link type of the stubs of a scope.
ScopeLinkType ==
  [scope \in Scopes |->
     CASE scope = "public" -> "javaSdk"
       [] scope = "system" -> "javaSystem"
       [] scope = "test" -> "javaSystem"
       [] scope = "module-lib" -> "javaModule"
       [] scope = "system-server" -> "javaSystemServer"]

\* C29: for every scope and every base name other than hwbinder and
\* libcore_private, moduleStubLinkType of the name of each stubs library of
\* the scope (top level, exportable, their from-source libraries, from-text)
\* is stub = true with the link type of the scope.
C29_StubNamesGiveScopeLinkType ==
  (pc = "linked" /\ props.baseName \notin {"hwbinder", "libcore_private"}) =>
    result = [stub |-> TRUE, ret |-> ScopeLinkType[props.apiScope]]


----------------------------------------------------------------------------
(* A java_sdk_library_import on the variant created for a prebuilt apex. *)

\* ApexRootRelativePathToJavaLib
ApexRootRelativePathToJavaLib(name) == "javalib/" \o name \o ".jar"

\* The tail of SdkLibraryImport.GenerateAndroidBuildActions, under
\* ctx.Device(): the dex jar from the deapexer and the stub jar handed to
\* initHiddenAPI, read as findScopePaths(apiScopePublic).stubsImplPath[0]. A nil
\* record and an empty list both end the build in a runtime panic.
prebuiltApexDexJar(registry, module, variant) ==
  LET outcome(status, dexJarFile, dexJarFileErr, stubJar, newErrors) ==
        [status |-> status, dexJarFile |-> dexJarFile, dexJarFileErr |-> dexJarFileErr,
         stubJar |-> stubJar, errors |-> newErrors]
      public == findScopePaths(registry, apiScopePublic)
  IN IF ~(variant.Device /\ variant.ForPrebuiltApex)
       THEN outcome("done", None, None, None, {})
     ELSE IF variant.Deapexer = "error"
       THEN outcome("done", None, "FindDeapexerProviderForModule", None, {})
     ELSE IF variant.Deapexer = "no export"
       THEN outcome("done", None, None, None,
                    {[msg |-> "internal error: no dex implementation jar available from prebuilt APEX"]})
     ELSE IF public = None
       THEN outcome("panic: nil pointer dereference", None, None, None, {})
     ELSE IF registry[public].stubsImplPath = None
       THEN outcome("panic: index out of range", None, None, None, {})
     ELSE outcome("done", ApexRootRelativePathToJavaLib(module.Name), None,
                  registry[public].stubsImplPath, {})

\* Every import within the bound, on every variant of the module: for the
\* device or the host, for a prebuilt apex or not, with what the deapexer of
\* the apex answers: an error, the exported dex jar of the library, or no
\* such export.
InitImportApex ==
  /\ pc = "declared"
  /\ props \in {d \in SdkLibraryImportDeclarations : Distance(d) <= MaxNonDefault}
  /\ config = [AllowMissingDependencies |-> FALSE, BuildFromTextStub |-> FALSE,
               ReleaseHiddenApiExportableStubs |-> FALSE, ApiLibraries |-> {}]
  /\ tree \in [Device : BOOLEAN, ForPrebuiltApex : BOOLEAN,
               Deapexer : {"error", "exports", "no export"}]
  /\ created = <<>>
  /\ errors = {}
  /\ missingDeps = {}
  /\ deps = <<>>
  /\ scopePaths = emptyRegistry
  /\ visits = <<>>
  /\ result = [status |-> None, dexJarFile |-> None, dexJarFileErr |-> None,
               stubJar |-> None, errors |-> {}]

\* SdkLibraryImport.GenerateAndroidBuildActions on a variant of the module.
RunImportGenerateAndroidBuildActionsOnVariant ==
  /\ pc = "deps"
  /\ props.Kind = "java_sdk_library_import"
  /\ LET r == ImportGenerateAndroidBuildActions(scopePaths, props, config, deps, created)
         tail == prebuiltApexDexJar(r.registry, props, tree)
     IN /\ scopePaths' = r.registry
        /\ errors' = errors \cup r.errors \cup tail.errors
        /\ visits' = r.visits
        /\ result' = tail
        /\ pc' = IF tail.status = "done" THEN "generated" ELSE "panic"
  /\ UNCHANGED <<props, config, tree, created, missingDeps, deps>>

NextImportApex ==
  \/ RunImportDefaultableHook
  \/ RunImportComponentDepsMutator
  \/ RunImportGenerateAndroidBuildActionsOnVariant

SpecImportApex == InitImportApex /\ [][NextImportApex]_vars

\* The build actions ran on a device variant for a prebuilt apex whose
\* deapexer exports the dex jar of the library.
ReachedStubJarAccess ==
  /\ pc \in {"generated", "panic"}
  /\ tree.Device /\ tree.ForPrebuiltApex /\ tree.Deapexer = "exports"

\* C30: whatever the import declares, when the build actions reach the read of
\* findScopePaths(apiScopePublic).stubsImplPath[0] the public scope has a record
\* whose stubsImplPath is not empty, and the read gives the stub jar.
C30_PublicStubJarPresentAtAccess ==
  ReachedStubJarAccess =>
    /\ apiScopePublic \in DOMAIN scopePaths
    /\ scopePaths[apiScopePublic].stubsImplPath # None
    /\ pc = "generated"
    /\ result.stubJar = scopePaths[apiScopePublic].stubsImplPath

=============================================================================
